---- MODULE Spec2Model ----
(***************************************************************************)
(* A model of the instrumented algorithm engine of vision-graph-lab        *)
(* (src/src/lib/algorithms.ts): class AlgorithmRunner, its run methods and *)
(* the step / operation-log buffers they fill through addStep.             *)
(*                                                                         *)
(* A run method is synchronous; it is modelled as a start action, one      *)
(* action per iteration of its outermost loop (the inner loops are folded  *)
(* into that action by recursive operators) and a completion action.       *)
(***************************************************************************)
EXTENDS Integers, Sequences, FiniteSets, TLC

\* graphData, steps and operationLog are the runner's fields; pc and loc are
\* the position and the local variables of the run method that is executing;
\* executions lists the calls that have returned to the caller, each with
\* the AlgorithmExecution it received
VARIABLES graphData, pc, loc, steps, operationLog, executions

vars == <<graphData, pc, loc, steps, operationLog, executions>>

(***************************************************************************)
(* Bounds of the model.                                                    *)
(***************************************************************************)
MaxNodes == 3
MaxEdges == 3
\* the largest edge weight, and the size of the most negative one
MaxWeight == 3
MaxNegWeight == 1
\* the iterations of runFordFulkerson's loop that are followed
MaxAugmentations == 6
\* the calls of run methods in a row that are followed, and the edges of
\* the graphs they are followed on
MaxRuns == 3
MaxRerunEdges == 2
\* the nodes of the graphs on which the levels of runBFS are followed
MaxLevelNodes == 4
\* the lookups of a code listing in a row that are followed
MaxLookups == 2

\* the edge weights of the input graphs: some specifications add 0 and a
\* negative weight
PositiveWeights == {1, MaxWeight}
NonNegativeWeights == {0} \cup PositiveWeights
IntegerWeights == {-MaxNegWeight} \cup NonNegativeWeights

(***************************************************************************)
(* JavaScript numbers.  A distance is a finite number or Infinity; a JSON  *)
(* round trip can also produce null.  Values are tagged so that the three  *)
(* stay distinct.                                                          *)
(***************************************************************************)
Num(n) == [kind |-> "number", n |-> n]
Infinity == [kind |-> "Infinity", n |-> 0]
null == [kind |-> "null", n |-> 0]

IsNumber(x) == x.kind = "number"

\* a + b on numbers (no operand is ever -Infinity or NaN in the engine)
Add(a, b) == IF a.kind = "Infinity" \/ b.kind = "Infinity" THEN Infinity
             ELSE Num(a.n + b.n)

\* a < b on numbers
Lt(a, b) == IF a.kind = "Infinity" THEN FALSE
            ELSE IF b.kind = "Infinity" THEN TRUE
            ELSE a.n < b.n

\* JSON.parse(JSON.stringify(m)) of a matrix of numbers: JSON has no
\* Infinity, JSON.stringify writes it as null and JSON.parse reads null back
JsonRoundTrip(m) ==
  [u \in DOMAIN m |->
     [v \in DOMAIN m[u] |-> IF m[u][v].kind = "Infinity" THEN null ELSE m[u][v]]]

(***************************************************************************)
(* Sequences.                                                              *)
(***************************************************************************)
Range(s) == {s[i] : i \in DOMAIN s}

\* Array.prototype.filter
RECURSIVE SelectIdx(_, _, _)
SelectIdx(s, keep, i) ==
  IF i > Len(s) THEN <<>>
  ELSE (IF i \in keep THEN <<s[i]>> ELSE <<>>) \o SelectIdx(s, keep, i + 1)

Filter(s, Test(_)) == SelectIdx(s, {i \in DOMAIN s : Test(s[i])}, 1)

\* Array.prototype.sort with the comparator (a, b) => Key(a) - Key(b) on
\* finite keys: ascending, and stable (equal keys keep their order)
SortBy(s, Key(_)) ==
  LET rank(i) == Cardinality({j \in DOMAIN s :
                     \/ Key(s[j]) < Key(s[i])
                     \/ Key(s[j]) = Key(s[i]) /\ j < i}) + 1
  IN [r \in DOMAIN s |-> s[CHOOSE i \in DOMAIN s : rank(i) = r]]

RECURSIVE Flatten(_)
Flatten(ss) == IF ss = <<>> THEN <<>> ELSE Head(ss) \o Flatten(Tail(ss))

(***************************************************************************)
(* GraphData (src/src/lib/graph-types.ts).  Node ids are 1..n in list      *)
(* order; an edge's id is its position in the edge list.  An edge record   *)
(* may lack the optional weight field.                                     *)
(***************************************************************************)
NodeList(n) == [i \in 1..n |-> [id |-> i, label |-> i]]

\* the (source, target) pairs an edge may join; loops says whether an edge
\* may join a node to itself
Endpoints(n, loops) == {p \in (1..n) \X (1..n) : loops \/ p[1] # p[2]}

\* the edge list that gives edge i the endpoints f[i][1] and the weight f[i][2]
EdgeList(f) ==
  [i \in DOMAIN f |-> [id |-> i, source |-> f[i][1][1], target |-> f[i][1][2],
                        weight |-> f[i][2]]]

\* g is a graph of at most MaxNodes nodes and MaxEdges edges with weights in W
IsInputGraph(g, W, loops) ==
  \E n \in 1..MaxNodes, m \in 0..MaxEdges :
    \E f \in [1..m -> Endpoints(n, loops) \X W] :
      g = [nodes |-> NodeList(n), edges |-> EdgeList(f)]

NodeIds(g) == {g.nodes[i].id : i \in DOMAIN g.nodes}

\* this.graphData.nodes.map(n => n.id)
NodeIdList(g) == [i \in DOMAIN g.nodes |-> g.nodes[i].id]

\* edge.weight || 1
EdgeWeight(edge) ==
  IF "weight" \in DOMAIN edge /\ edge.weight # 0 THEN edge.weight ELSE 1

\* the weight the caller gave: the weight field, 1 when the field is absent
GivenWeight(edge) == IF "weight" \in DOMAIN edge THEN edge.weight ELSE 1

(***************************************************************************)
(* AlgorithmRunner: constructor, addStep, getNodeLabel, getNeighbors,      *)
(* createDefaultExecution.                                                 *)
(***************************************************************************)
\* no run method has been called
NoRunYet ==
  /\ pc = "idle"
  /\ loc = [method |-> "none"]
  /\ steps = <<>>
  /\ operationLog = <<>>
  /\ executions = <<>>

\* the state after new AlgorithmRunner(graphData), for input graphs with
\* weights drawn from W
Constructed(W, loops) ==
  /\ IsInputGraph(graphData, W, loops)
  /\ NoRunYet

getNodeLabel(g, nodeId) ==
  IF \E i \in DOMAIN g.nodes : g.nodes[i].id = nodeId
  THEN g.nodes[CHOOSE i \in DOMAIN g.nodes :
                 /\ g.nodes[i].id = nodeId
                 /\ \A j \in 1..(i - 1) : g.nodes[j].id # nodeId].label
  ELSE nodeId

MapLabels(g, arr) == [i \in DOMAIN arr |-> getNodeLabel(g, arr[i])]

\* neighbours along the direction of the edges only
getNeighborsDirected(g, nodeId) ==
  LET inc == Filter(g.edges, LAMBDA e : e.source = nodeId)
  IN [i \in DOMAIN inc |-> inc[i].target]

\* neighbours in the reverse of the edge list's order
getNeighborsReversed(g, nodeId) ==
  LET inc == Filter(g.edges, LAMBDA e : e.source = nodeId \/ e.target = nodeId)
  IN [i \in DOMAIN inc |->
        IF inc[Len(inc) + 1 - i].source = nodeId THEN inc[Len(inc) + 1 - i].target
        ELSE inc[Len(inc) + 1 - i].source]

getNeighbors(g, nodeId) ==
  LET inc == Filter(g.edges, LAMBDA e : e.source = nodeId \/ e.target = nodeId)
  IN [i \in DOMAIN inc |-> IF inc[i].source = nodeId THEN inc[i].target ELSE inc[i].source]

\* the labels of the nodes that some step so far marks 'visited', first
\* occurrence kept
RECURSIVE Dedup(_)
Dedup(s) ==
  IF s = <<>> THEN <<>>
  ELSE LET r == Dedup(SubSeq(s, 1, Len(s) - 1))
       IN IF s[Len(s)] \in Range(r) THEN r ELSE Append(r, s[Len(s)])

NodesVisited(g, ss) ==
  LET visitedIn(st) ==
        LET vs == Filter(st.nodeUpdates,
                         LAMBDA nu : "state" \in DOMAIN nu /\ nu.state = "visited")
        IN [i \in DOMAIN vs |-> getNodeLabel(g, vs[i].id)]
  IN Dedup(Flatten([i \in DOMAIN ss |-> visitedIn(ss[i])]))

\* addStep on the trace tr = [steps, operationLog]: the step is the given
\* id, title and code line with empty update lists, overridden by every
\* field of updates; one operation-log entry is appended with it
PushLog(g, tr, newSteps, id, description, updates) ==
  LET aux == [f \in DOMAIN updates \cap {"queue", "stack", "result", "list"} |->
                MapLabels(g, updates[f])]
      \* the entries of array are edge texts "A-B(w)", taken to be no node's
      \* id: getNodeLabel returns them unchanged
      mat == [f \in DOMAIN updates \cap {"matrix", "array"} |-> updates[f]]
      entry == aux @@ mat @@ [iteration |-> id, operation |-> description,
                              nodesVisited |-> NodesVisited(g, newSteps)]
  IN [steps |-> newSteps, operationLog |-> Append(tr.operationLog, entry)]

\* the step pushed, no operation-log entry made
addStepWithoutLog(g, tr, id, description, codeLine, updates) ==
  [steps |-> Append(tr.steps,
                    updates @@ [id |-> id, description |-> description,
                                codeLine |-> codeLine,
                                nodeUpdates |-> <<>>, edgeUpdates |-> <<>>]),
   operationLog |-> tr.operationLog]

addStep(g, tr, id, description, codeLine, updates) ==
  PushLog(g, tr,
          Append(tr.steps,
                 updates @@ [id |-> id, description |-> description, codeLine |-> codeLine,
                             nodeUpdates |-> <<>>, edgeUpdates |-> <<>>]),
          id, description, updates)

\* the buffers as the previous run left them
KeptTrace == [steps |-> steps, operationLog |-> operationLog]

\* this.steps = []; this.operationLog = []
EmptyTrace == [steps |-> <<>>, operationLog |-> <<>>]

\* the trace that the state variables hold
Trace == [steps |-> steps, operationLog |-> operationLog]

\* an execution that says the playback is over
createCompletedExecution ==
  [steps |-> steps, currentStep |-> Len(steps), isComplete |-> TRUE,
   operationLog |-> operationLog]

\* createDefaultExecution: what a run method returns
createDefaultExecution ==
  [steps |-> steps, currentStep |-> 0, isComplete |-> FALSE, operationLog |-> operationLog]

\* an execution holds the arrays themselves, not copies: the caller's record
\* of a call says whose they are now, "the runner's" while this.steps and
\* this.operationLog still refer to them
\* the arrays emptied in place, as this.steps.length = 0 would do
EmptiedInPlace(xs) ==
  [i \in DOMAIN xs |->
     IF xs[i].arrays = "the runner's"
     THEN [xs[i] EXCEPT !.execution.steps = <<>>, !.execution.operationLog = <<>>]
     ELSE xs[i]]

\* this.steps = []; this.operationLog = [] binds new arrays to the fields:
\* the arrays of the executions returned before are theirs alone
Rebound(xs) ==
  [i \in DOMAIN xs |->
     IF xs[i].arrays = "the runner's" THEN [xs[i] EXCEPT !.arrays = "replaced"]
     ELSE xs[i]]

Returned == pc = "returned"

LastStep == steps[Len(steps)]

(***************************************************************************)
(* runDijkstra                                                             *)
(***************************************************************************)
\* the for loop over the outgoing edges of the current node; st carries
\* distances, pq, stepId and the trace
RECURSIVE DijkstraEdges(_, _, _, _, _)
DijkstraEdges(g, edges, currentId, visited, st) ==
  IF edges = <<>> THEN st
  ELSE
    LET edge == Head(edges)
        neighborId == edge.target
        weight == EdgeWeight(edge)
        newDistance == Add(st.distances[currentId], Num(weight))
    IN IF neighborId \in visited
       THEN DijkstraEdges(g, Tail(edges), currentId, visited, st)
       ELSE IF Lt(newDistance, st.distances[neighborId])
       THEN
         LET distances == [st.distances EXCEPT ![neighborId] = newDistance]
             pq == Append(st.pq, [distance |-> newDistance, nodeId |-> neighborId])
             tr == addStep(g, st.tr, st.stepId, "Update distance", 12,
                     [nodeUpdates |-> <<[id |-> neighborId, distance |-> newDistance,
                                         state |-> "current"]>>,
                      edgeUpdates |-> <<[id |-> edge.id, isActive |-> TRUE]>>,
                      description |-> "Update distance to",
                      queue |-> [i \in DOMAIN pq |-> getNodeLabel(g, pq[i].nodeId)],
                      matrix |-> distances])
         IN DijkstraEdges(g, Tail(edges), currentId, visited,
              [distances |-> distances, pq |-> pq, stepId |-> st.stepId + 1, tr |-> tr])
       ELSE DijkstraEdges(g, Tail(edges), currentId, visited, st)

\* runDijkstra up to the while loop
RunDijkstra(startNodeId) ==
  /\ pc = "idle"
  /\ LET distances == [id \in NodeIds(graphData) |->
                         IF id = startNodeId THEN Num(0) ELSE Infinity]
         pq == <<[distance |-> Num(0), nodeId |-> startNodeId]>>
         tr == addStep(graphData, EmptyTrace, 0, "Initialize Dijkstra", 1,
                 [nodeUpdates |-> [i \in DOMAIN graphData.nodes |->
                     [id |-> graphData.nodes[i].id,
                      distance |-> distances[graphData.nodes[i].id],
                      state |-> IF graphData.nodes[i].id = startNodeId
                                THEN "current" ELSE "default"]],
                  description |-> "Starting Dijkstra from",
                  queue |-> [i \in DOMAIN pq |-> getNodeLabel(graphData, pq[i].nodeId)]])
     IN /\ loc' = [method |-> "runDijkstra", startNodeId |-> startNodeId,
                   distances |-> distances, visited |-> {}, pq |-> pq, stepId |-> 1]
        /\ steps' = tr.steps
        /\ operationLog' = tr.operationLog
  /\ pc' = "dijkstra_while"
  /\ executions' = Rebound(executions)
  /\ UNCHANGED graphData

\* one iteration of while (pq.length > 0)
DijkstraIteration ==
  /\ pc = "dijkstra_while"
  /\ loc.pq # <<>>
  /\ \E sorted \in {SortBy(loc.pq, LAMBDA item : item.distance.n)} :
     LET current == Head(sorted)
         rest == Tail(sorted)
     IN IF current.nodeId \in loc.visited
        THEN \* continue
             /\ loc' = [loc EXCEPT !.pq = rest]
             /\ pc' = pc
             /\ UNCHANGED <<steps, operationLog>>
        ELSE IF current.distance = Infinity
        THEN \* break
             /\ loc' = [loc EXCEPT !.pq = rest]
             /\ pc' = "dijkstra_complete"
             /\ UNCHANGED <<steps, operationLog>>
        ELSE
          \E st \in {DijkstraEdges(graphData,
                        Filter(graphData.edges, LAMBDA e : e.source = current.nodeId),
                        current.nodeId, loc.visited \cup {current.nodeId},
                        [distances |-> loc.distances, pq |-> rest,
                         stepId |-> loc.stepId + 1,
                         tr |-> addStep(graphData,
                                  Trace,
                                  loc.stepId, "Process current node", 8,
                                  [nodeUpdates |-> <<[id |-> current.nodeId,
                                                      state |-> "visited"]>>,
                                   description |-> "Processing",
                                   queue |-> [i \in DOMAIN rest |->
                                                getNodeLabel(graphData, rest[i].nodeId)],
                                   matrix |-> loc.distances])])} :
            \* the step that shows the queue and the matrix after the iteration
            \E tr \in {addStep(graphData, st.tr, st.stepId, "Queue State", 2,
                          [queue |-> [i \in DOMAIN st.pq |->
                                        getNodeLabel(graphData, st.pq[i].nodeId)],
                           matrix |-> st.distances])} :
              /\ loc' = [loc EXCEPT !.visited = loc.visited \cup {current.nodeId},
                                    !.distances = st.distances,
                                    !.pq = st.pq, !.stepId = st.stepId + 1]
              /\ steps' = tr.steps
              /\ operationLog' = tr.operationLog
              /\ pc' = pc
  /\ UNCHANGED <<graphData, executions>>

\* after the loop: the completion step and the return
DijkstraComplete ==
  /\ \/ pc = "dijkstra_while" /\ loc.pq = <<>>
     \/ pc = "dijkstra_complete"
  /\ LET tr == addStep(graphData, Trace,
                 loc.stepId, "Dijkstra Complete", 14,
                 [description |-> "Shortest path algorithm finished.",
                  queue |-> [i \in DOMAIN loc.pq |->
                               getNodeLabel(graphData, loc.pq[i].nodeId)],
                  matrix |-> loc.distances])
     IN /\ steps' = tr.steps
        /\ operationLog' = tr.operationLog
        /\ loc' = [loc EXCEPT !.stepId = loc.stepId + 1]
  /\ pc' = "returned"
  /\ UNCHANGED <<graphData, executions>>

InitDijkstra == Constructed(NonNegativeWeights, FALSE)

NextDijkstra ==
  \/ \E s \in NodeIds(graphData) : RunDijkstra(s)
  \/ DijkstraIteration
  \/ DijkstraComplete

SpecDijkstra == InitDijkstra /\ [][NextDijkstra]_vars

(***************************************************************************)
(* runFloydWarshall                                                        *)
(***************************************************************************)
\* this.graphData.edges.find(e => (e.source === u && e.target === v) ||
\*                                (e.target === u && e.source === v))
FWJoins(e, u, v) ==
  \/ e.source = u /\ e.target = v
  \/ e.target = u /\ e.source = v

\* the initial distance matrix
FWInitialDist(g) ==
  [u \in NodeIds(g) |->
     [v \in NodeIds(g) |->
        IF u = v THEN Num(0)
        ELSE IF \E x \in DOMAIN g.edges : FWJoins(g.edges[x], u, v)
        THEN Num(EdgeWeight(g.edges[CHOOSE x \in DOMAIN g.edges :
                              /\ FWJoins(g.edges[x], u, v)
                              /\ \A y \in 1..(x - 1) : ~FWJoins(g.edges[y], u, v)]))
        ELSE Infinity]]

\* the snapshot of dist that a step carries
FWSnapshot(dist) == JsonRoundTrip(dist)

\* a relaxation that never replaces an Infinity entry
FWImprovesOnlyFinite(dist, i, j, k) ==
  /\ dist[i][j].kind # "Infinity"
  /\ Lt(Add(dist[i][k], dist[k][j]), dist[i][j])

\* if (dist[i][k] + dist[k][j] < dist[i][j])
FWImproves(dist, i, j, k) == Lt(Add(dist[i][k], dist[k][j]), dist[i][j])

\* dist[i][j] = dist[i][k] + dist[k][j] and the step that records it
FWUpdated(g, st, dist) ==
  [dist |-> dist, stepId |-> st.stepId + 1,
   tr |-> addStep(g, st.tr, st.stepId, "Update shortest path", 2,
            [matrix |-> FWSnapshot(dist), description |-> "Updated shortest path"])]

\* the two inner loops (for i, for j) for one k; p counts the (i, j) pairs
RECURSIVE FloydWarshallIJ(_, _, _, _)
FloydWarshallIJ(g, k, p, st) ==
  IF p > Len(g.nodes) * Len(g.nodes) THEN st
  ELSE
    LET i == NodeIdList(g)[((p - 1) \div Len(g.nodes)) + 1]
        j == NodeIdList(g)[((p - 1) % Len(g.nodes)) + 1]
    IN IF FWImproves(st.dist, i, j, k)
       THEN FloydWarshallIJ(g, k, p + 1,
              FWUpdated(g, st, [st.dist EXCEPT ![i][j] = Add(st.dist[i][k], st.dist[k][j])]))
       ELSE FloydWarshallIJ(g, k, p + 1, st)

\* runFloydWarshall up to the main loop
RunFloydWarshall ==
  /\ pc = "idle"
  /\ \E dist \in {FWInitialDist(graphData)} :
       \E tr \in {addStep(graphData, EmptyTrace, 0, "Initialize distance matrix", 1,
                    [matrix |-> FWSnapshot(dist),
                     description |-> "Initialized distance matrix for all node pairs."])} :
         /\ loc' = [method |-> "runFloydWarshall", dist |-> dist, k |-> 1, stepId |-> 1]
         /\ steps' = tr.steps
         /\ operationLog' = tr.operationLog
  /\ pc' = "fw_for_k"
  /\ executions' = Rebound(executions)
  /\ UNCHANGED graphData

\* one iteration of for (const k of nodeIds)
FloydWarshallK ==
  /\ pc = "fw_for_k"
  /\ loc.k <= Len(graphData.nodes)
  /\ \E st \in {FloydWarshallIJ(graphData, NodeIdList(graphData)[loc.k], 1,
                  [dist |-> loc.dist, stepId |-> loc.stepId,
                   tr |-> [steps |-> steps, operationLog |-> operationLog]])} :
       \E tr \in {addStep(graphData, st.tr, st.stepId, "Matrix State", 3,
                    [matrix |-> FWSnapshot(st.dist),
                     description |-> "Matrix after considering as intermediate."])} :
         /\ loc' = [loc EXCEPT !.dist = st.dist, !.k = loc.k + 1, !.stepId = st.stepId + 1]
         /\ steps' = tr.steps
         /\ operationLog' = tr.operationLog
  /\ pc' = pc
  /\ UNCHANGED <<graphData, executions>>

\* after the main loop: the completion step and the return
FloydWarshallComplete ==
  /\ pc = "fw_for_k"
  /\ loc.k > Len(graphData.nodes)
  /\ \E tr \in {addStep(graphData, Trace,
                  loc.stepId, "Floyd-Warshall Complete", 4,
                  [matrix |-> FWSnapshot(loc.dist),
                   description |-> "Algorithm finished. All-pairs shortest paths calculated."])} :
       /\ steps' = tr.steps
       /\ operationLog' = tr.operationLog
       /\ loc' = [loc EXCEPT !.stepId = loc.stepId + 1]
  /\ pc' = "returned"
  /\ UNCHANGED <<graphData, executions>>

InitFloydWarshall == Constructed(IntegerWeights, FALSE)

NextFloydWarshall ==
  \/ RunFloydWarshall
  \/ FloydWarshallK
  \/ FloydWarshallComplete

SpecFloydWarshall == InitFloydWarshall /\ [][NextFloydWarshall]_vars

(***************************************************************************)
(* runBellmanFord                                                          *)
(***************************************************************************)
\* distances[u] !== Infinity && distances[u] + w < distances[v]
BFRelaxable(distances, edge) ==
  /\ distances[edge.source] # Infinity
  /\ Lt(Add(distances[edge.source], Num(EdgeWeight(edge))), distances[edge.target])

\* the same without the node update in the step
BFUpdatedWithoutNodeUpdate(g, st, edge, distances) ==
  [distances |-> distances, updated |-> TRUE, stepId |-> st.stepId + 1,
   tr |-> addStep(g, st.tr, st.stepId, "Distance updated", 6,
            [description |-> "Updated distance to", matrix |-> distances])]

\* distances[v] = distances[u] + w, updated = true, and the step that
\* records it
BFUpdated(g, st, edge, distances) ==
  [distances |-> distances, updated |-> TRUE, stepId |-> st.stepId + 1,
   tr |-> addStep(g, st.tr, st.stepId, "Distance updated", 6,
            [nodeUpdates |-> <<[id |-> edge.target, distance |-> distances[edge.target]]>>,
             description |-> "Updated distance to",
             matrix |-> distances])]

\* the step that every edge examined in a pass gets
BFExamined(g, st, edge) ==
  [st EXCEPT !.stepId = st.stepId + 1,
             !.tr = addStep(g, st.tr, st.stepId, "Relaxing edge", 4,
                      [edgeUpdates |-> <<[id |-> edge.id, isActive |-> TRUE]>>,
                       description |-> "Iteration: Checking edge",
                       matrix |-> st.distances])]

\* an inner loop that leaves the pass at the first update
RECURSIVE BellmanFordEdgesUntilUpdated(_, _, _)
BellmanFordEdgesUntilUpdated(g, x, st) ==
  IF x > Len(g.edges) \/ st.updated THEN st
  ELSE IF BFRelaxable(st.distances, g.edges[x])
  THEN BellmanFordEdgesUntilUpdated(g, x + 1,
         BFUpdated(g, BFExamined(g, st, g.edges[x]), g.edges[x],
           [st.distances EXCEPT ![g.edges[x].target] =
              Add(st.distances[g.edges[x].source], Num(EdgeWeight(g.edges[x])))]))
  ELSE BellmanFordEdgesUntilUpdated(g, x + 1, BFExamined(g, st, g.edges[x]))

\* the inner loop of a pass: for (const edge of this.graphData.edges)
RECURSIVE BellmanFordEdges(_, _, _)
BellmanFordEdges(g, x, st) ==
  IF x > Len(g.edges) THEN st
  ELSE IF BFRelaxable(st.distances, g.edges[x])
  THEN BellmanFordEdges(g, x + 1,
         BFUpdated(g, BFExamined(g, st, g.edges[x]), g.edges[x],
           [st.distances EXCEPT ![g.edges[x].target] =
              Add(st.distances[g.edges[x].source], Num(EdgeWeight(g.edges[x])))]))
  ELSE BellmanFordEdges(g, x + 1, BFExamined(g, st, g.edges[x]))

\* a scan that does not return after the negative-cycle step
BFFinalScanFallsThrough(g, tr, stepId, distances) ==
  IF \E x \in DOMAIN g.edges : BFRelaxable(distances, g.edges[x])
  THEN addStep(g,
         addStep(g, tr, stepId, "Negative cycle detected", 9,
           [description |->
              "Negative weight cycle detected! Algorithm cannot find shortest paths.",
            matrix |-> distances]),
         stepId + 1, "Bellman-Ford Complete", 10,
         [description |-> "Algorithm finished. Final distances calculated.",
          matrix |-> distances])
  ELSE addStep(g, tr, stepId, "Bellman-Ford Complete", 10,
         [description |-> "Algorithm finished. Final distances calculated.",
          matrix |-> distances])

\* the scan after the passes: the trace that the method returns.  On the
\* first edge that can still be relaxed the negative-cycle step is added
\* and the method returns; with no such edge the completion step is added.
BFFinalScan(g, tr, stepId, distances) ==
  IF \E x \in DOMAIN g.edges : BFRelaxable(distances, g.edges[x])
  THEN LET edge == g.edges[CHOOSE x \in DOMAIN g.edges :
                             /\ BFRelaxable(distances, g.edges[x])
                             /\ \A y \in 1..(x - 1) : ~BFRelaxable(distances, g.edges[y])]
       IN addStep(g, tr, stepId, "Negative cycle detected", 9,
            [nodeUpdates |-> <<[id |-> edge.target, state |-> "error"],
                               [id |-> edge.source, state |-> "error"]>>,
             edgeUpdates |-> <<[id |-> edge.id, isError |-> TRUE]>>,
             description |->
               "Negative weight cycle detected! Algorithm cannot find shortest paths.",
             matrix |-> distances])
  ELSE addStep(g, tr, stepId, "Bellman-Ford Complete", 10,
         [description |-> "Algorithm finished. Final distances calculated.",
          matrix |-> distances])

\* runBellmanFord up to the passes
RunBellmanFord(startNodeId) ==
  /\ pc = "idle"
  /\ \E distances \in {[id \in NodeIds(graphData) |->
                          IF id = startNodeId THEN Num(0) ELSE Infinity]} :
       \E tr \in {addStep(graphData, EmptyTrace, 0, "Initialize Bellman-Ford", 2,
                    [nodeUpdates |-> [i \in DOMAIN graphData.nodes |->
                        [id |-> graphData.nodes[i].id,
                         distance |-> distances[graphData.nodes[i].id]]],
                     description |-> "Initializing distances. Start node is 0.",
                     matrix |-> distances])} :
         /\ loc' = [method |-> "runBellmanFord", startNodeId |-> startNodeId,
                    distances |-> distances, i |-> 0, stepId |-> 1]
         /\ steps' = tr.steps
         /\ operationLog' = tr.operationLog
  /\ pc' = "bf_for_i"
  /\ executions' = Rebound(executions)
  /\ UNCHANGED graphData

\* one pass: an iteration of for (let i = 0; i < nodes.length - 1; i++)
BellmanFordPass ==
  /\ pc = "bf_for_i"
  /\ loc.i < Len(graphData.nodes) - 1
  /\ \E st \in {BellmanFordEdges(graphData, 1,
                  [distances |-> loc.distances, updated |-> FALSE, stepId |-> loc.stepId,
                   tr |-> [steps |-> steps, operationLog |-> operationLog]])} :
       \E tr \in {addStep(graphData, st.tr, st.stepId, "Matrix State", 7,
                    [matrix |-> st.distances])} :
         /\ loc' = [loc EXCEPT !.distances = st.distances, !.i = loc.i + 1,
                               !.stepId = st.stepId + 1]
         /\ steps' = tr.steps
         /\ operationLog' = tr.operationLog
         \* if (!updated) break
         /\ pc' = IF st.updated THEN pc ELSE "bf_scan"
  /\ UNCHANGED <<graphData, executions>>

\* after the passes: the scan for a negative cycle and the return
BellmanFordScan ==
  /\ \/ pc = "bf_for_i" /\ loc.i >= Len(graphData.nodes) - 1
     \/ pc = "bf_scan"
  /\ \E tr \in {BFFinalScan(graphData, Trace,
                            loc.stepId, loc.distances)} :
       /\ steps' = tr.steps
       /\ operationLog' = tr.operationLog
       /\ loc' = [loc EXCEPT !.stepId = loc.stepId + 1]
  /\ pc' = "returned"
  /\ UNCHANGED <<graphData, executions>>

InitBellmanFord == Constructed({-MaxNegWeight, 0, 1}, TRUE)

NextBellmanFord ==
  \/ \E s \in NodeIds(graphData) : RunBellmanFord(s)
  \/ BellmanFordPass
  \/ BellmanFordScan

SpecBellmanFord == InitBellmanFord /\ [][NextBellmanFord]_vars

(***************************************************************************)
(* runBFS and runDFS                                                       *)
(***************************************************************************)
\* a neighbour enqueued unless it is in the queue already
BFSEnqueuesVisited(visited, queue, neighborId) == neighborId \notin Range(queue)

\* if (!visited.has(neighborId) && !queue.includes(neighborId))
BFSEnqueues(visited, queue, neighborId) ==
  neighborId \notin visited /\ neighborId \notin Range(queue)

\* queue.push(neighborId) and the step that records it
BFSEnqueued(g, st, currentId, neighborId, visitOrder, queue) ==
  [queue |-> queue, stepId |-> st.stepId + 1,
   tr |-> addStep(g, st.tr, st.stepId, "Enqueue neighbor", 10,
            [nodeUpdates |-> <<[id |-> neighborId, state |-> "current"]>>,
             edgeUpdates |-> <<[source |-> currentId, target |-> neighborId,
                                isActive |-> TRUE]>>,
             description |-> "Added to queue",
             queue |-> MapLabels(g, queue),
             result |-> MapLabels(g, visitOrder)])]

\* for (const neighborId of this.getNeighbors(currentId)) in runBFS
RECURSIVE BFSNeighbors(_, _, _, _, _, _)
BFSNeighbors(g, currentId, neighbors, visited, visitOrder, st) ==
  IF neighbors = <<>> THEN st
  ELSE IF BFSEnqueues(visited, st.queue, Head(neighbors))
  THEN BFSNeighbors(g, currentId, Tail(neighbors), visited, visitOrder,
         BFSEnqueued(g, st, currentId, Head(neighbors), visitOrder,
                     Append(st.queue, Head(neighbors))))
  ELSE BFSNeighbors(g, currentId, Tail(neighbors), visited, visitOrder, st)

\* runBFS up to the while loop
RunBFS(startNodeId) ==
  /\ pc = "idle"
  /\ \E tr \in {addStep(graphData, EmptyTrace, 0, "Initialize BFS", 1,
                  [nodeUpdates |-> <<[id |-> startNodeId, state |-> "current"]>>,
                   description |-> "Starting BFS from node",
                   queue |-> MapLabels(graphData, <<startNodeId>>),
                   result |-> <<>>])} :
       /\ steps' = tr.steps
       /\ operationLog' = tr.operationLog
  /\ loc' = [method |-> "runBFS", startNodeId |-> startNodeId, visited |-> {},
             queue |-> <<startNodeId>>, visitOrder |-> <<>>, stepId |-> 1]
  /\ pc' = "bfs_while"
  /\ executions' = Rebound(executions)
  /\ UNCHANGED graphData

\* one iteration of while (queue.length > 0) in runBFS
BFSIteration ==
  /\ pc = "bfs_while"
  /\ loc.queue # <<>>
  /\ LET currentId == Head(loc.queue)
         queue == Tail(loc.queue)
     IN IF currentId \in loc.visited
        THEN \E tr \in {addStep(graphData, Trace, loc.stepId, "Node already visited", 6,
                          [description |-> "Node already visited, skipping.",
                           queue |-> MapLabels(graphData, queue),
                           result |-> MapLabels(graphData, loc.visitOrder)])} :
               /\ steps' = tr.steps
               /\ operationLog' = tr.operationLog
               /\ loc' = [loc EXCEPT !.queue = queue, !.stepId = loc.stepId + 1]
        ELSE
          \E visitOrder \in {Append(loc.visitOrder, currentId)} :
          \E st \in {BFSNeighbors(graphData, currentId, getNeighbors(graphData, currentId),
                       loc.visited \cup {currentId}, visitOrder,
                       [queue |-> queue, stepId |-> loc.stepId + 1,
                        tr |-> addStep(graphData, Trace, loc.stepId, "Visit node", 7,
                                 [nodeUpdates |-> <<[id |-> currentId, state |-> "visited"]>>,
                                  description |-> "Visited node",
                                  queue |-> MapLabels(graphData, queue),
                                  result |-> MapLabels(graphData, visitOrder)])])} :
          \* the step that shows the queue after the iteration
          \E tr \in {addStep(graphData, st.tr, st.stepId, "Queue State", 2,
                       [queue |-> MapLabels(graphData, st.queue),
                        result |-> MapLabels(graphData, visitOrder)])} :
            /\ steps' = tr.steps
            /\ operationLog' = tr.operationLog
            /\ loc' = [loc EXCEPT !.visited = loc.visited \cup {currentId},
                                  !.visitOrder = visitOrder,
                                  !.queue = st.queue, !.stepId = st.stepId + 1]
  /\ pc' = pc
  /\ UNCHANGED <<graphData, executions>>

\* the completion step and the return while nodes may wait in the queue
BFSCompleteAtAnyTime ==
  /\ pc = "bfs_while"
  /\ \E tr \in {addStep(graphData, Trace, loc.stepId, "BFS Complete", 11,
                  [description |-> "Algorithm finished: all reachable nodes visited.",
                   result |-> MapLabels(graphData, loc.visitOrder)])} :
       /\ steps' = tr.steps
       /\ operationLog' = tr.operationLog
  /\ loc' = [loc EXCEPT !.stepId = loc.stepId + 1]
  /\ pc' = "returned"
  /\ UNCHANGED <<graphData, executions>>

\* after the loop of runBFS: the completion step and the return
BFSComplete ==
  /\ pc = "bfs_while"
  /\ loc.queue = <<>>
  /\ \E tr \in {addStep(graphData, Trace, loc.stepId, "BFS Complete", 11,
                  [description |-> "Algorithm finished: all reachable nodes visited.",
                   result |-> MapLabels(graphData, loc.visitOrder)])} :
       /\ steps' = tr.steps
       /\ operationLog' = tr.operationLog
  /\ loc' = [loc EXCEPT !.stepId = loc.stepId + 1]
  /\ pc' = "returned"
  /\ UNCHANGED <<graphData, executions>>

\* if (!visited.has(neighborId))
DFSPushes(visited, neighborId) == neighborId \notin visited

\* stack.push(neighborId) and the step that records it
DFSPushed(g, st, currentId, neighborId, stack) ==
  [stack |-> stack, stepId |-> st.stepId + 1,
   tr |-> addStep(g, st.tr, st.stepId, "Push neighbor to stack", 10,
            [nodeUpdates |-> <<[id |-> neighborId, state |-> "current"]>>,
             edgeUpdates |-> <<[source |-> currentId, target |-> neighborId,
                                isActive |-> TRUE]>>,
             description |-> "Added to stack",
             stack |-> MapLabels(g, stack)])]

\* for (const neighborId of this.getNeighbors(currentId)) in runDFS
RECURSIVE DFSNeighbors(_, _, _, _, _)
DFSNeighbors(g, currentId, neighbors, visited, st) ==
  IF neighbors = <<>> THEN st
  ELSE IF DFSPushes(visited, Head(neighbors))
  THEN DFSNeighbors(g, currentId, Tail(neighbors), visited,
         DFSPushed(g, st, currentId, Head(neighbors), Append(st.stack, Head(neighbors))))
  ELSE DFSNeighbors(g, currentId, Tail(neighbors), visited, st)

\* runDFS up to the while loop
RunDFS(startNodeId) ==
  /\ pc = "idle"
  /\ \E tr \in {addStep(graphData, EmptyTrace, 0, "Initialize DFS", 1,
                  [nodeUpdates |-> <<[id |-> startNodeId, state |-> "current"]>>,
                   description |-> "Starting DFS from node",
                   stack |-> MapLabels(graphData, <<startNodeId>>)])} :
       /\ steps' = tr.steps
       /\ operationLog' = tr.operationLog
  /\ loc' = [method |-> "runDFS", startNodeId |-> startNodeId, visited |-> {},
             stack |-> <<startNodeId>>, stepId |-> 1]
  /\ pc' = "dfs_while"
  /\ executions' = Rebound(executions)
  /\ UNCHANGED graphData

\* one iteration of while (stack.length > 0) in runDFS
DFSIteration ==
  /\ pc = "dfs_while"
  /\ loc.stack # <<>>
  /\ LET currentId == loc.stack[Len(loc.stack)]
         stack == SubSeq(loc.stack, 1, Len(loc.stack) - 1)
     IN IF currentId \in loc.visited
        THEN \E tr \in {addStep(graphData, Trace, loc.stepId, "Node already visited", 6,
                          [description |-> "Node already visited, skipping.",
                           stack |-> MapLabels(graphData, stack)])} :
               /\ steps' = tr.steps
               /\ operationLog' = tr.operationLog
               /\ loc' = [loc EXCEPT !.stack = stack, !.stepId = loc.stepId + 1]
        ELSE
          \E st \in {DFSNeighbors(graphData, currentId, getNeighbors(graphData, currentId),
                       loc.visited \cup {currentId},
                       [stack |-> stack, stepId |-> loc.stepId + 1,
                        tr |-> addStep(graphData, Trace, loc.stepId, "Visit node", 7,
                                 [nodeUpdates |-> <<[id |-> currentId, state |-> "visited"]>>,
                                  description |-> "Visited node",
                                  stack |-> MapLabels(graphData, stack)])])} :
          \* the step that shows the stack after the iteration
          \E tr \in {addStep(graphData, st.tr, st.stepId, "Stack State", 2,
                       [stack |-> MapLabels(graphData, st.stack)])} :
            /\ steps' = tr.steps
            /\ operationLog' = tr.operationLog
            /\ loc' = [loc EXCEPT !.visited = loc.visited \cup {currentId},
                                  !.stack = st.stack, !.stepId = st.stepId + 1]
  /\ pc' = pc
  /\ UNCHANGED <<graphData, executions>>

\* after the loop of runDFS: the completion step and the return
DFSComplete ==
  /\ pc = "dfs_while"
  /\ loc.stack = <<>>
  /\ \E tr \in {addStep(graphData, Trace, loc.stepId, "DFS Complete", 11,
                  [description |-> "Algorithm finished: all reachable nodes visited.",
                   stack |-> MapLabels(graphData, loc.stack)])} :
       /\ steps' = tr.steps
       /\ operationLog' = tr.operationLog
  /\ loc' = [loc EXCEPT !.stepId = loc.stepId + 1]
  /\ pc' = "returned"
  /\ UNCHANGED <<graphData, executions>>

InitTraversal == Constructed({1}, TRUE)

NextTraversal ==
  \/ \E s \in NodeIds(graphData) : RunBFS(s)
  \/ BFSIteration
  \/ BFSComplete
  \/ \E s \in NodeIds(graphData) : RunDFS(s)
  \/ DFSIteration
  \/ DFSComplete

SpecTraversal == InitTraversal /\ [][NextTraversal]_vars

(***************************************************************************)
(* runPrims                                                                *)
(***************************************************************************)
\* `${label(e.source)}-${label(e.target)}(${e.weight || 1})` for every edge
EdgeTexts(g, es) ==
  [i \in DOMAIN es |-> [source |-> getNodeLabel(g, es[i].source),
                        target |-> getNodeLabel(g, es[i].target),
                        weight |-> EdgeWeight(es[i])]]

\* only the edges that leave nodeId
PrimsIncidentOutgoing(g, nodeId) == Filter(g.edges, LAMBDA e : e.source = nodeId)

\* the edges that addEdges(nodeId) appends to pq
PrimsIncident(g, nodeId) ==
  Filter(g.edges, LAMBDA e : e.source = nodeId \/ e.target = nodeId)

\* runPrims up to the while loop; visited is kept in insertion order, as
\* the Set that Array.from(visited) lists
RunPrims(startNodeId) ==
  /\ pc = "idle"
  /\ \E pq \in {PrimsIncident(graphData, startNodeId)} :
     \E tr \in {addStep(graphData,
                  addStep(graphData, EmptyTrace, 0, "Initialize Prim's", 5,
                    [nodeUpdates |-> <<[id |-> startNodeId, state |-> "visited"]>>,
                     description |-> "Starting Prim's algorithm from node",
                     list |-> <<getNodeLabel(graphData, startNodeId)>>]),
                  1, "Add initial edges to PQ", 6,
                  [description |-> "Adding edges to the priority queue.",
                   array |-> EdgeTexts(graphData, pq)])} :
       /\ steps' = tr.steps
       /\ operationLog' = tr.operationLog
       /\ loc' = [method |-> "runPrims", startNodeId |-> startNodeId,
                  mstEdges |-> <<>>, visited |-> <<startNodeId>>, pq |-> pq, stepId |-> 2]
  /\ pc' = "prims_while"
  /\ executions' = Rebound(executions)
  /\ UNCHANGED graphData

\* while (pq.length > 0 && mstEdges.length < this.graphData.nodes.length - 1)
PrimsContinues == loc.pq # <<>> /\ Len(loc.mstEdges) < Len(graphData.nodes) - 1

\* one iteration of the while loop of runPrims
PrimsIteration ==
  /\ pc = "prims_while"
  /\ PrimsContinues
  /\ \E sorted \in {SortBy(loc.pq, EdgeWeight)} :
     \E edge \in {Head(sorted)} :
     \E pq \in {Tail(sorted)} :
     \E tr0 \in {addStep(graphData, Trace, loc.stepId, "Select minimum edge", 8,
                   [edgeUpdates |-> <<[id |-> edge.id, isActive |-> TRUE]>>,
                    description |-> "Selecting edge with weight",
                    array |-> EdgeTexts(graphData, pq),
                    list |-> MapLabels(graphData, loc.visited)])} :
       IF edge.source \in Range(loc.visited) /\ edge.target \in Range(loc.visited)
       THEN \E tr \in {addStep(graphData, tr0, loc.stepId + 1, "Skip edge (creates cycle)", 11,
                         [edgeUpdates |-> <<[id |-> edge.id, isActive |-> FALSE,
                                             isError |-> TRUE]>>,
                          description |-> "Both nodes already in MST, skipping edge.",
                          array |-> EdgeTexts(graphData, pq),
                          list |-> MapLabels(graphData, loc.visited)])} :
              /\ steps' = tr.steps
              /\ operationLog' = tr.operationLog
              /\ loc' = [loc EXCEPT !.pq = pq, !.stepId = loc.stepId + 2]
       ELSE
         \E newNodeId \in {IF edge.source \in Range(loc.visited)
                           THEN edge.target ELSE edge.source} :
         \E visited \in {Append(loc.visited, newNodeId)} :
         \E tr \in {addStep(graphData, tr0, loc.stepId + 1, "Add edge to MST", 13,
                      [nodeUpdates |-> <<[id |-> newNodeId, state |-> "visited"]>>,
                       edgeUpdates |-> <<[id |-> edge.id, inTree |-> TRUE]>>,
                       description |-> "Adding edge to MST and visiting node",
                       array |-> EdgeTexts(graphData, pq),
                       list |-> MapLabels(graphData, visited)])} :
           /\ steps' = tr.steps
           /\ operationLog' = tr.operationLog
           /\ loc' = [loc EXCEPT !.visited = visited,
                                 !.mstEdges = Append(loc.mstEdges, edge),
                                 !.pq = pq \o PrimsIncident(graphData, newNodeId),
                                 !.stepId = loc.stepId + 2]
  /\ pc' = pc
  /\ UNCHANGED <<graphData, executions>>

\* after the loop of runPrims: the completion step and the return
PrimsComplete ==
  /\ pc = "prims_while"
  /\ ~PrimsContinues
  /\ \E tr \in {addStep(graphData, Trace, loc.stepId, "Prim's Complete", 15,
                  [description |-> "Minimum Spanning Tree construction complete.",
                   array |-> EdgeTexts(graphData, loc.pq),
                   list |-> MapLabels(graphData, loc.visited)])} :
       /\ steps' = tr.steps
       /\ operationLog' = tr.operationLog
  /\ loc' = [loc EXCEPT !.stepId = loc.stepId + 1]
  /\ pc' = "returned"
  /\ UNCHANGED <<graphData, executions>>

(***************************************************************************)
(* runKruskals                                                             *)
(***************************************************************************)
\* find: parent-chasing without path compression
RECURSIVE find(_, _)
find(parent, i) == IF parent[i] = i THEN i ELSE find(parent, parent[i])

\* a union that joins nothing
unionNothing(parent, i, j) == parent

\* union: parent as it is after union(i, j)
union(parent, i, j) ==
  IF find(parent, i) # find(parent, j)
  THEN [parent EXCEPT ![find(parent, j)] = find(parent, i)]
  ELSE parent

\* the sort applied to this.graphData.edges itself
KruskalsEdgesSortedInPlace(g, sortedEdges) == sortedEdges

\* this.graphData.edges after [...this.graphData.edges].sort(...): the
\* sort is applied to a copy, the list that the runner shares with its
\* caller stays as it is
KruskalsEdgesKept(g, sortedEdges) == g.edges

\* runKruskals up to the for loop
RunKruskals ==
  /\ pc = "idle"
  /\ \E sortedEdges \in {SortBy(graphData.edges, EdgeWeight)} :
     \E tr \in {addStep(graphData, EmptyTrace, 0, "Initialize Kruskal's", 3,
                  [description |-> "Sorting all edges by weight.",
                   array |-> EdgeTexts(graphData, sortedEdges),
                   list |-> MapLabels(graphData, NodeIdList(graphData))])} :
       /\ graphData' = [graphData EXCEPT
                          !.edges = KruskalsEdgesKept(graphData, sortedEdges)]
       /\ steps' = tr.steps
       /\ operationLog' = tr.operationLog
       /\ loc' = [method |-> "runKruskals", mstEdges |-> <<>>, sortedEdges |-> sortedEdges,
                  parent |-> [id \in NodeIds(graphData) |-> id], x |-> 1, stepId |-> 1]
  /\ pc' = "kruskals_for"
  /\ executions' = Rebound(executions)

\* one iteration of for (const edge of sortedEdges)
KruskalsIteration ==
  /\ pc = "kruskals_for"
  /\ loc.x <= Len(loc.sortedEdges)
  /\ \E edge \in {loc.sortedEdges[loc.x]} :
     \E view \in {[array |-> EdgeTexts(graphData, loc.sortedEdges),
                   list |-> MapLabels(graphData, NodeIdList(graphData))]} :
     \E tr0 \in {addStep(graphData, Trace, loc.stepId, "Consider next edge", 5,
                   view @@ [edgeUpdates |-> <<[id |-> edge.id, isActive |-> TRUE]>>,
                            description |-> "Considering edge with weight"])} :
       IF find(loc.parent, edge.source) # find(loc.parent, edge.target)
       THEN \E tr \in {addStep(graphData, tr0, loc.stepId + 1, "Add edge to MST", 8,
                         view @@ [nodeUpdates |-> <<[id |-> edge.source, state |-> "visited"],
                                                    [id |-> edge.target, state |-> "visited"]>>,
                                  edgeUpdates |-> <<[id |-> edge.id, inTree |-> TRUE]>>,
                                  description |->
                                    "Nodes are in different sets. Adding edge to MST."])} :
              /\ steps' = tr.steps
              /\ operationLog' = tr.operationLog
              /\ loc' = [loc EXCEPT !.mstEdges = Append(loc.mstEdges, edge),
                                    !.parent = union(loc.parent, edge.source, edge.target),
                                    !.x = loc.x + 1, !.stepId = loc.stepId + 2]
              \* if (mstEdges.length === this.graphData.nodes.length - 1) break
              /\ pc' = IF Len(loc.mstEdges) + 1 = Len(graphData.nodes) - 1
                       THEN "kruskals_complete" ELSE pc
       ELSE \E tr \in {addStep(graphData, tr0, loc.stepId + 1, "Skip edge (creates cycle)", 7,
                         view @@ [edgeUpdates |-> <<[id |-> edge.id, isError |-> TRUE,
                                                     isActive |-> FALSE]>>,
                                  description |->
                                    "Nodes are in the same set. Skipping to avoid a cycle."])} :
              /\ steps' = tr.steps
              /\ operationLog' = tr.operationLog
              /\ loc' = [loc EXCEPT !.x = loc.x + 1, !.stepId = loc.stepId + 2]
              /\ pc' = IF Len(loc.mstEdges) = Len(graphData.nodes) - 1
                       THEN "kruskals_complete" ELSE pc
  /\ UNCHANGED <<graphData, executions>>

\* after the loop of runKruskals: the completion step and the return
KruskalsComplete ==
  /\ \/ pc = "kruskals_for" /\ loc.x > Len(loc.sortedEdges)
     \/ pc = "kruskals_complete"
  /\ \E tr \in {addStep(graphData, Trace, loc.stepId, "Kruskal's Complete", 10,
                  [description |-> "Minimum Spanning Tree construction complete.",
                   array |-> EdgeTexts(graphData, loc.sortedEdges),
                   list |-> MapLabels(graphData, NodeIdList(graphData))])} :
       /\ steps' = tr.steps
       /\ operationLog' = tr.operationLog
  /\ loc' = [loc EXCEPT !.stepId = loc.stepId + 1]
  /\ pc' = "returned"
  /\ UNCHANGED <<graphData, executions>>

InitMST == Constructed(NonNegativeWeights, FALSE)

NextMST ==
  \/ \E s \in NodeIds(graphData) : RunPrims(s)
  \/ PrimsIteration
  \/ PrimsComplete
  \/ RunKruskals
  \/ KruskalsIteration
  \/ KruskalsComplete

SpecMST == InitMST /\ [][NextMST]_vars

\* the same runs on graphs with positive weights that may have self-loops
InitMSTLoops == Constructed(PositiveWeights, TRUE)

SpecMSTLoops == InitMSTLoops /\ [][NextMST]_vars

(***************************************************************************)
(* runFordFulkerson                                                        *)
(***************************************************************************)
\* the residual capacities before the first search: 0 for every pair, then
\* every edge in list order writes its weight at [source][target]
RECURSIVE FFInitialCapacity(_, _)
FFInitialCapacity(g, x) ==
  IF x = 0
  THEN [u \in NodeIds(g) |-> [v \in NodeIds(g) |-> Num(0)]]
  ELSE LET edge == g.edges[x]
       IN [FFInitialCapacity(g, x - 1) EXCEPT
             ![edge.source][edge.target] = Num(EdgeWeight(edge))]

\* bfs(), the for loop over nodeIds for the dequeued node u; s carries
\* found, queue, visited and parent
RECURSIVE FFBfsNodes(_, _, _, _, _)
FFBfsNodes(capacity, sinkId, u, vs, s) ==
  IF vs = <<>> THEN s
  ELSE LET v == Head(vs)
       IN IF v \notin s.visited /\ capacity[u][v].n > 0
          THEN LET t == [found |-> v = sinkId,
                         queue |-> Append(s.queue, v),
                         visited |-> s.visited \cup {v},
                         parent |-> (v :> u) @@ s.parent]
               IN IF v = sinkId THEN t
                  ELSE FFBfsNodes(capacity, sinkId, u, Tail(vs), t)
          ELSE FFBfsNodes(capacity, sinkId, u, Tail(vs), s)

\* bfs(), the while loop over the queue
RECURSIVE FFBfsQueue(_, _, _, _)
FFBfsQueue(g, capacity, sinkId, s) ==
  IF s.queue = <<>> THEN s
  ELSE LET t == FFBfsNodes(capacity, sinkId, Head(s.queue), NodeIdList(g),
                           [s EXCEPT !.queue = Tail(s.queue)])
       IN IF t.found THEN t ELSE FFBfsQueue(g, capacity, sinkId, t)

\* no parent: node ids are 1, 2, ..
NoParent == 0

\* bfs(): whether the sink is found, and the parent map it leaves; the
\* visited set starts empty, the source is not in it
bfs(g, capacity, parent, sourceId, sinkId) ==
  FFBfsQueue(g, capacity, sinkId,
             [found |-> FALSE, queue |-> <<sourceId>>, visited |-> {},
              parent |-> (sourceId :> NoParent) @@ parent])

\* the nodes from the source to v along parent
RECURSIVE FFPath(_, _, _)
FFPath(parent, sourceId, v) ==
  IF v = sourceId THEN <<sourceId>>
  ELSE Append(FFPath(parent, sourceId, parent[v]), v)

\* Math.min(pathFlow, c)
Min2(a, b) == IF Lt(b, a) THEN b ELSE a

\* the bottleneck along the path: Infinity when the path has no edge
RECURSIVE FFPathFlow(_, _, _)
FFPathFlow(capacity, path, x) ==
  IF x <= 1 THEN Infinity
  ELSE Min2(FFPathFlow(capacity, path, x - 1), capacity[path[x - 1]][path[x]])

\* the residual capacities after the path's edges, from the sink back to
\* path[x], have given pathFlow to their reverse
RECURSIVE FFAugmented(_, _, _, _)
FFAugmented(capacity, path, pathFlow, x) ==
  IF x > Len(path) THEN capacity
  ELSE LET c == FFAugmented(capacity, path, pathFlow, x + 1)
           u == path[x - 1]
           v == path[x]
           d == [c EXCEPT ![u][v] = Num(c[u][v].n - pathFlow.n)]
       IN [d EXCEPT ![v][u] = Num(d[v][u].n + pathFlow.n)]

\* Number.prototype.toString: texts are modelled as node ids are, the text
\* of n is n and the text of Infinity is no node's id
NumberText(x) == IF IsNumber(x) THEN x.n ELSE 0 - 1

\* runFordFulkerson up to the while loop
RunFordFulkerson(sourceId, sinkId) ==
  /\ pc = "idle"
  /\ \E capacity \in {FFInitialCapacity(graphData, Len(graphData.edges))} :
     \E tr \in {addStep(graphData, EmptyTrace, 0, "Initialize Ford-Fulkerson", 1,
                  [description |-> "Finding max flow from",
                   matrix |-> JsonRoundTrip(capacity)])} :
       /\ loc' = [method |-> "runFordFulkerson", sourceId |-> sourceId,
                  sinkId |-> sinkId, capacity |-> capacity, maxFlow |-> Num(0),
                  parent |-> <<>>, stepId |-> 1]
       /\ steps' = tr.steps
       /\ operationLog' = tr.operationLog
  /\ pc' = "ff_while"
  /\ executions' = Rebound(executions)
  /\ UNCHANGED graphData

\* one iteration of while (bfs()); the model follows at most
\* MaxAugmentations of them
FordFulkersonAugment ==
  /\ pc = "ff_while"
  /\ loc.stepId <= MaxAugmentations
  /\ \E b \in {bfs(graphData, loc.capacity, loc.parent, loc.sourceId, loc.sinkId)} :
     /\ b.found
     /\ \E path \in {FFPath(b.parent, loc.sourceId, loc.sinkId)} :
        \E pathFlow \in {FFPathFlow(loc.capacity, path, Len(path))} :
        \E capacity \in {FFAugmented(loc.capacity, path, pathFlow, 2)} :
        \E tr \in {addStep(graphData, Trace, loc.stepId, "Augment path", 2,
                     [description |-> "Augmented path:",
                      matrix |-> JsonRoundTrip(capacity),
                      list |-> path])} :
          /\ loc' = [loc EXCEPT !.capacity = capacity, !.parent = b.parent,
                                !.maxFlow = Add(loc.maxFlow, pathFlow),
                                !.stepId = loc.stepId + 1]
          /\ steps' = tr.steps
          /\ operationLog' = tr.operationLog
  /\ pc' = pc
  /\ UNCHANGED <<graphData, executions>>

\* bfs() finds no path: the completion step and the return
FordFulkersonComplete ==
  /\ pc = "ff_while"
  /\ \E b \in {bfs(graphData, loc.capacity, loc.parent, loc.sourceId, loc.sinkId)} :
     /\ ~b.found
     /\ \E tr \in {addStep(graphData, Trace, loc.stepId, "Ford-Fulkerson Complete", 3,
                     [description |-> "Algorithm finished. Max flow =",
                      matrix |-> JsonRoundTrip(loc.capacity),
                      result |-> <<NumberText(loc.maxFlow)>>])} :
          /\ loc' = [loc EXCEPT !.parent = b.parent, !.stepId = loc.stepId + 1]
          /\ steps' = tr.steps
          /\ operationLog' = tr.operationLog
  /\ pc' = "returned"
  /\ UNCHANGED <<graphData, executions>>

InitFordFulkerson == Constructed(PositiveWeights, FALSE)

NextFordFulkerson ==
  \/ \E s \in NodeIds(graphData), t \in NodeIds(graphData) : RunFordFulkerson(s, t)
  \/ FordFulkersonAugment
  \/ FordFulkersonComplete

SpecFordFulkerson == InitFordFulkerson /\ [][NextFordFulkerson]_vars

(***************************************************************************)
(* runAStar                                                                *)
(***************************************************************************)
getNode(g, nodeId) ==
  g.nodes[CHOOSE i \in DOMAIN g.nodes :
            /\ g.nodes[i].id = nodeId
            /\ \A j \in 1..(i - 1) : g.nodes[j].id # nodeId]

\* Math.sqrt of a perfect square
SqrtOfSquare(d) == CHOOSE r \in 0..d : r * r = d

\* a heuristic that overestimates: far more than any path costs
hOverestimate(g, nodeId, endNodeId) ==
  IF nodeId = endNodeId THEN Num(0) ELSE Num(MaxNodes * MaxWeight)

\* the heuristic h: 0 unless both the node and the end node have x and y,
\* then their straight-line distance
h(g, nodeId, endNodeId) ==
  LET node == getNode(g, nodeId)
      endNode == getNode(g, endNodeId)
  IN IF {"x", "y"} \subseteq DOMAIN node /\ {"x", "y"} \subseteq DOMAIN endNode
     THEN Num(SqrtOfSquare((node.x - endNode.x) * (node.x - endNode.x)
                           + (node.y - endNode.y) * (node.y - endNode.y)))
     ELSE Num(0)

\* the edges at nodeId in either direction, each read as leaving nodeId
IncidentEdgesOutward(g, nodeId) ==
  LET inc == Filter(g.edges, LAMBDA e : e.source = nodeId \/ e.target = nodeId)
  IN [i \in DOMAIN inc |->
        IF inc[i].source = nodeId THEN inc[i]
        ELSE [inc[i] EXCEPT !.source = nodeId, !.target = inc[i].source]]

\* this.graphData.edges.filter(e => e.source === currentId)
OutgoingEdges(g, nodeId) == Filter(g.edges, LAMBDA e : e.source = nodeId)

\* { gScore: { ...gScore }, fScore: { ...fScore } }
AStarMatrix(st) == [gScore |-> st.gScore, fScore |-> st.fScore]

\* the for loop over the outgoing edges of the current node; st carries
\* gScore, fScore, cameFrom, openSet, stepId and the trace
RECURSIVE AStarEdges(_, _, _, _, _)
AStarEdges(g, edges, currentId, endNodeId, st) ==
  IF edges = <<>> THEN st
  ELSE
    LET edge == Head(edges)
        neighborId == edge.target
        tentative_gScore == Add(st.gScore[currentId], Num(EdgeWeight(edge)))
        checked == [st EXCEPT
                      !.stepId = st.stepId + 1,
                      !.tr = addStep(g, st.tr, st.stepId, "Check neighbor", 11,
                               [edgeUpdates |-> <<[id |-> edge.id, isActive |-> TRUE]>>,
                                description |-> "Checking neighbor",
                                matrix |-> AStarMatrix(st)])]
    IN IF Lt(tentative_gScore, st.gScore[neighborId])
       THEN
         LET gScore == [st.gScore EXCEPT ![neighborId] = tentative_gScore]
             fScore == [st.fScore EXCEPT
                          ![neighborId] = Add(tentative_gScore, h(g, neighborId, endNodeId))]
             upd == [gScore |-> gScore, fScore |-> fScore,
                     cameFrom |-> (neighborId :> currentId) @@ st.cameFrom,
                     openSet |-> IF neighborId \in Range(st.openSet) THEN st.openSet
                                 ELSE Append(st.openSet, neighborId),
                     stepId |-> checked.stepId + 1,
                     tr |-> addStep(g, checked.tr, checked.stepId,
                              "Update neighbor scores", 15,
                              [nodeUpdates |-> <<[id |-> neighborId,
                                                  distance |-> tentative_gScore,
                                                  state |-> "current"]>>,
                               description |-> "Updating",
                               matrix |-> [gScore |-> gScore, fScore |-> fScore]])]
         IN AStarEdges(g, Tail(edges), currentId, endNodeId, upd)
       ELSE AStarEdges(g, Tail(edges), currentId, endNodeId, checked)

\* the path cut after one step back
AStarPathOneStepBack(cameFrom, current) ==
  IF current \in DOMAIN cameFrom THEN <<cameFrom[current], current>> ELSE <<current>>

\* the path that the cameFrom map gives back from current
RECURSIVE AStarPath(_, _)
AStarPath(cameFrom, current) ==
  IF current \in DOMAIN cameFrom
  THEN Append(AStarPath(cameFrom, cameFrom[current]), current)
  ELSE <<current>>

\* runAStar up to the while loop
RunAStar(startNodeId, endNodeId) ==
  /\ pc = "idle"
  /\ LET gScore == [id \in NodeIds(graphData) |->
                      IF id = startNodeId THEN Num(0) ELSE Infinity]
         fScore == [id \in NodeIds(graphData) |->
                      IF id = startNodeId THEN h(graphData, startNodeId, endNodeId)
                      ELSE Infinity]
         openSet == <<startNodeId>>
         tr == addStep(graphData, EmptyTrace, 0, "Initialize A*", 3,
                 [nodeUpdates |-> [i \in DOMAIN graphData.nodes |->
                     [id |-> graphData.nodes[i].id,
                      distance |-> gScore[graphData.nodes[i].id],
                      state |-> IF graphData.nodes[i].id = startNodeId
                                THEN "current" ELSE "default"]],
                  description |-> "Starting A* from",
                  queue |-> MapLabels(graphData, openSet),
                  matrix |-> [gScore |-> gScore, fScore |-> fScore]])
     IN /\ loc' = [method |-> "runAStar", startNodeId |-> startNodeId,
                   endNodeId |-> endNodeId, openSet |-> openSet, cameFrom |-> <<>>,
                   gScore |-> gScore, fScore |-> fScore, stepId |-> 1]
        /\ steps' = tr.steps
        /\ operationLog' = tr.operationLog
  /\ pc' = "astar_while"
  /\ executions' = Rebound(executions)
  /\ UNCHANGED graphData

\* one iteration of while (openSet.length > 0): the selection steps, then
\* either the path and the return, or the loop over the outgoing edges
AStarIteration ==
  /\ pc = "astar_while"
  /\ loc.openSet # <<>>
  /\ \E sorted \in {SortBy(loc.openSet, LAMBDA id : loc.fScore[id].n)} :
     LET currentId == Head(sorted)
         openSet == Tail(sorted)
         m == AStarMatrix(loc)
     IN \E sel \in {addStep(graphData,
                      addStep(graphData, Trace, loc.stepId,
                        "Select node from open set", 6,
                        [nodeUpdates |-> <<[id |-> currentId, state |-> "current"]>>,
                         description |-> "Selecting",
                         queue |-> MapLabels(graphData, openSet),
                         matrix |-> m]),
                      loc.stepId + 1, "Queue State", 2,
                      [queue |-> MapLabels(graphData, openSet), matrix |-> m])} :
        IF currentId = loc.endNodeId
        THEN
          \E path \in {AStarPath(loc.cameFrom, currentId)} :
          \E tr \in {addStep(graphData, sel, loc.stepId + 2, "Path found", 8,
                       [nodeUpdates |-> [i \in DOMAIN path |->
                                           [id |-> path[i], state |-> "visited"]],
                        edgeUpdates |-> [i \in 1..(Len(path) - 1) |->
                                           [source |-> path[i], target |-> path[i + 1],
                                            isActive |-> TRUE]],
                        description |-> "Path found with total cost",
                        result |-> MapLabels(graphData, path),
                        matrix |-> m])} :
            /\ loc' = [loc EXCEPT !.openSet = openSet, !.stepId = loc.stepId + 3]
            /\ steps' = tr.steps
            /\ operationLog' = tr.operationLog
            /\ pc' = "returned"
        ELSE
          \E st \in {AStarEdges(graphData,
                       OutgoingEdges(graphData, currentId),
                       currentId, loc.endNodeId,
                       [gScore |-> loc.gScore, fScore |-> loc.fScore,
                        cameFrom |-> loc.cameFrom, openSet |-> openSet,
                        stepId |-> loc.stepId + 2, tr |-> sel])} :
            /\ loc' = [loc EXCEPT !.gScore = st.gScore, !.fScore = st.fScore,
                                  !.cameFrom = st.cameFrom, !.openSet = st.openSet,
                                  !.stepId = st.stepId]
            /\ steps' = st.tr.steps
            /\ operationLog' = st.tr.operationLog
            /\ pc' = pc
  /\ UNCHANGED <<graphData, executions>>

\* the open set is empty: the 'no path' step and the return
AStarNoPath ==
  /\ pc = "astar_while"
  /\ loc.openSet = <<>>
  /\ LET tr == addStep(graphData, Trace, loc.stepId, "A* Complete - No Path", 18,
                 [description |-> "Algorithm finished: no path found to the destination.",
                  queue |-> MapLabels(graphData, loc.openSet),
                  matrix |-> AStarMatrix(loc)])
     IN /\ steps' = tr.steps
        /\ operationLog' = tr.operationLog
        /\ loc' = [loc EXCEPT !.stepId = loc.stepId + 1]
  /\ pc' = "returned"
  /\ UNCHANGED <<graphData, executions>>

\* the input graph with every node placed on a line: node i at x = i, y = 0
Placed(g) ==
  [nodes |-> [i \in DOMAIN g.nodes |-> g.nodes[i] @@ [x |-> i, y |-> 0]],
   edges |-> g.edges]

\* input graphs with positive weights, their nodes without coordinates or
\* placed on a line
InitAStar ==
  /\ \/ IsInputGraph(graphData, PositiveWeights, FALSE)
     \/ \E n \in 1..MaxNodes, m \in 0..MaxEdges :
          \E f \in [1..m -> Endpoints(n, FALSE) \X PositiveWeights] :
            graphData = Placed([nodes |-> NodeList(n), edges |-> EdgeList(f)])
  /\ NoRunYet

NextAStar ==
  \/ \E s \in NodeIds(graphData), e \in NodeIds(graphData) : RunAStar(s, e)
  \/ AStarIteration
  \/ AStarNoPath

SpecAStar == InitAStar /\ [][NextAStar]_vars

(***************************************************************************)
(* The caller: it receives the AlgorithmExecution of a call and calls a    *)
(* run method again, of the same runner or of a new runner for the same    *)
(* GraphData.                                                              *)
(***************************************************************************)
\* the method of a call and its arguments
CallOf(l) ==
  [f \in DOMAIN l \cap {"method", "startNodeId", "endNodeId", "sourceId", "sinkId"} |->
     l[f]]

\* the run method's promise resolves: the caller has the execution, the
\* runner keeps its buffers
ReturnToCaller ==
  /\ pc = "returned"
  /\ Len(executions) < MaxRuns
  /\ executions' = Append(executions,
                     [call |-> CallOf(loc), execution |-> createDefaultExecution,
                      arrays |-> "the runner's"])
  /\ pc' = "idle"
  /\ loc' = [method |-> "none"]
  /\ UNCHANGED <<graphData, steps, operationLog>>

\* the same, and the caller makes a new AlgorithmRunner(graphData) for its
\* next call
ReturnToNewRunner ==
  /\ pc = "returned"
  /\ Len(executions) < MaxRuns
  /\ executions' = Append(executions,
                     [call |-> CallOf(loc), execution |-> createDefaultExecution,
                      arrays |-> "of a dropped runner"])
  /\ pc' = "idle"
  /\ loc' = [method |-> "none"]
  /\ steps' = <<>>
  /\ operationLog' = <<>>
  /\ UNCHANGED graphData

\* calls in a row: any call, then any call, then the first call again
MayCall(call) == Len(executions) = 2 => executions[1].call = call

\* runBFS and runDFS called up to MaxRuns times in a row on graphs of at most
\* MaxRerunEdges edges
InitRerun ==
  /\ \E n \in 1..MaxNodes, m \in 0..MaxRerunEdges :
       \E f \in [1..m -> Endpoints(n, TRUE) \X {1}] :
         graphData = [nodes |-> NodeList(n), edges |-> EdgeList(f)]
  /\ NoRunYet

NextRerun ==
  \/ \E s \in NodeIds(graphData) :
       MayCall([method |-> "runBFS", startNodeId |-> s]) /\ RunBFS(s)
  \/ \E s \in NodeIds(graphData) :
       MayCall([method |-> "runDFS", startNodeId |-> s]) /\ RunDFS(s)
  \/ BFSIteration
  \/ BFSComplete
  \/ DFSIteration
  \/ DFSComplete
  \/ ReturnToCaller
  \/ executions = <<>> /\ ReturnToNewRunner

SpecRerun == InitRerun /\ [][NextRerun]_vars

\* runAStar, and after it has returned with a path runDijkstra from the same
\* start node on the same runner; nodes have no coordinates
InitAStarThenDijkstra == Constructed(PositiveWeights, FALSE)

NextAStarThenDijkstra ==
  \/ \E s \in NodeIds(graphData), e \in NodeIds(graphData) :
       executions = <<>> /\ RunAStar(s, e)
  \/ AStarIteration
  \/ AStarNoPath
  \/ /\ loc.method = "runAStar"
     /\ LastStep.description = "Path found with total cost"
     /\ ReturnToCaller
  \/ \E s \in NodeIds(graphData) :
       /\ executions # <<>>
       /\ s = executions[1].call.startNodeId
       /\ RunDijkstra(s)
  \/ DijkstraIteration
  \/ DijkstraComplete

SpecAStarThenDijkstra == InitAStarThenDijkstra /\ [][NextAStarThenDijkstra]_vars

\* one call of runDijkstra, runBellmanFord or runAStar on a graph with
\* positive weights
InitShortestPaths == Constructed(PositiveWeights, FALSE)

NextShortestPaths ==
  \/ NextDijkstra
  \/ NextBellmanFord
  \/ NextAStar

SpecShortestPaths == InitShortestPaths /\ [][NextShortestPaths]_vars

(***************************************************************************)
(* The player (AlgorithmControls): applyStep.                              *)
(***************************************************************************)
\* updates.find(u => u.id === id): the position of the first update with
\* that id, 0 when there is none
FindUpdate(updates, id) ==
  LET at == {i \in DOMAIN updates : "id" \in DOMAIN updates[i] /\ updates[i].id = id}
  IN IF at = {} THEN 0 ELSE CHOOSE i \in at : \A j \in at : i <= j

\* { ...item, ...update } for the update found, the item itself otherwise
Merged(item, updates) ==
  LET i == FindUpdate(updates, item.id)
  IN IF i = 0 THEN item ELSE updates[i] @@ item

\* applyStep(step) on the displayed graph prev
applyStep(prev, step) ==
  [nodes |-> [i \in DOMAIN prev.nodes |-> Merged(prev.nodes[i], step.nodeUpdates)],
   edges |-> [i \in DOMAIN prev.edges |-> Merged(prev.edges[i], step.edgeUpdates)]]

\* applyStep for the first n steps of ss in order
RECURSIVE Replayed(_, _, _)
Replayed(g, ss, n) ==
  IF n = 0 THEN g ELSE applyStep(Replayed(g, ss, n - 1), ss[n])

(***************************************************************************)
(* getAlgorithmCode.  A listing is kept as its first line and its number   *)
(* of lines.  The table of listings is an object literal, so a lookup      *)
(* also finds what every object inherits from Object.prototype.            *)
(***************************************************************************)
CodeListing(header, length) == [header |-> header, length |-> length]

\* const algorithms: Record<string, string[]> = { ... }
algorithms ==
  ("ford-fulkerson" :> CodeListing("function FordFulkerson(graph, source, sink):", 9))
  @@ ("floyd-warshall" :> CodeListing("function FloydWarshall(graph):", 12))
  @@ ("bfs" :> CodeListing("function BFS(graph, startNode):", 12))
  @@ ("dfs" :> CodeListing("function DFS(graph, startNode):", 12))
  @@ ("dijkstra" :> CodeListing("function Dijkstra(graph, startNode):", 15))
  @@ ("a_star" :> CodeListing("function A_Star(graph, start, goal, h):", 18))
  @@ ("bellman_ford" :> CodeListing("function BellmanFord(graph, start):", 10))
  @@ ("prims" :> CodeListing("function Prims(graph, startNode):", 15))
  @@ ("kruskals" :> CodeListing("function Kruskals(graph):", 10))

\* ['Algorithm not implemented']
NotImplemented == CodeListing("Algorithm not implemented", 1)

undefined == [typeof |-> "undefined"]

\* property names that every object literal inherits
ObjectPrototypeKeys ==
  {"constructor", "toString", "valueOf", "hasOwnProperty", "__proto__"}

\* obj[key]: an own property, else an inherited one, else undefined
Property(obj, key) ==
  IF key \in DOMAIN obj THEN obj[key]
  ELSE IF key \in ObjectPrototypeKeys
  THEN [typeof |-> IF key = "__proto__" THEN "object" ELSE "function",
        inherited |-> key]
  ELSE undefined

\* a || b: every value here but undefined is truthy
OrElse(a, b) == IF a # undefined THEN a ELSE b

\* the lookup without the aliases of the page's keys
getAlgorithmCodeWithoutAliases(algorithm) ==
  OrElse(Property(algorithms, algorithm), NotImplemented)

getAlgorithmCode(algorithm) ==
  IF algorithm = "bellman-ford"
  THEN OrElse(Property(algorithms, "bellman_ford"), NotImplemented)
  ELSE IF algorithm = "prim"
  THEN OrElse(Property(algorithms, "prims"), NotImplemented)
  ELSE IF algorithm = "kruskal"
  THEN OrElse(Property(algorithms, "kruskals"), NotImplemented)
  ELSE OrElse(Property(algorithms, algorithm), NotImplemented)

\* the names the page may ask a listing for: the keys, the aliases, names
\* of no listing, and property names of Object.prototype
AlgorithmNames ==
  DOMAIN algorithms \cup {"bellman-ford", "prim", "kruskal"}
  \cup {"a-star", "BFS", "topological", ""} \cup ObjectPrototypeKeys

\* codeLines={getAlgorithmCode(selectedAlgorithm)}: the page looks a listing
\* up, at most MaxLookups times
LookUpCode(selectedAlgorithm) ==
  /\ pc = "idle"
  /\ Len(executions) < MaxLookups
  /\ executions' = Append(executions,
                     [call |-> [method |-> "getAlgorithmCode",
                                algorithm |-> selectedAlgorithm],
                      returned |-> getAlgorithmCode(selectedAlgorithm)])
  /\ UNCHANGED <<graphData, pc, loc, steps, operationLog>>

InitCodeListing ==
  /\ graphData = [nodes |-> <<>>, edges |-> <<>>]
  /\ NoRunYet

NextCodeListing == \E name \in AlgorithmNames : LookUpCode(name)

SpecCodeListing == InitCodeListing /\ [][NextCodeListing]_vars

\* runBFS alone, on graphs of MaxLevelNodes nodes without loops: the least
\* size at which a node two hops away can be reached before one a hop away
InitBFSLevels ==
  /\ \E m \in 0..MaxEdges :
       \E f \in [1..m -> Endpoints(MaxLevelNodes, FALSE) \X {1}] :
         graphData = [nodes |-> NodeList(MaxLevelNodes), edges |-> EdgeList(f)]
  /\ NoRunYet

NextBFSLevels ==
  \/ \E s \in NodeIds(graphData) : RunBFS(s)
  \/ BFSIteration
  \/ BFSComplete

SpecBFSLevels == InitBFSLevels /\ [][NextBFSLevels]_vars

(***************************************************************************)
(* Graphs whose labels are not their ids (src/src/lib/graph-templates.ts   *)
(* gives node 'a' the label 'A').  A label is the node's own id, the id of *)
(* the next node of the list, or a text that is no node's id.              *)
(***************************************************************************)
LabelsOf(n, i) == {i, (i % n) + 1, MaxNodes + i}

Labelled(g, lab) ==
  [g EXCEPT !.nodes = [i \in DOMAIN g.nodes |-> [g.nodes[i] EXCEPT !.label = lab[i]]]]

\* runBFS and runDFS on labelled graphs of at most MaxRerunEdges edges
InitLabelled ==
  /\ \E n \in 1..MaxNodes, m \in 0..MaxRerunEdges :
       \E f \in [1..m -> Endpoints(n, TRUE) \X {1}] :
         \E lab \in [1..n -> 1..(2 * MaxNodes)] :
           /\ \A i \in 1..n : lab[i] \in LabelsOf(n, i)
           /\ graphData = Labelled([nodes |-> NodeList(n), edges |-> EdgeList(f)], lab)
  /\ NoRunYet

SpecLabelled == InitLabelled /\ [][NextTraversal]_vars

(***************************************************************************)
(* The player (AlgorithmControls): handlePlay with its interval callback,  *)
(* and the buttons of the step-through mode.  A handler calls a run method *)
(* and waits for it; the run is the runner's actions, and the handler goes *)
(* on when the method has returned.  algorithmSteps is execution.steps,    *)
(* the array the variable steps holds.  While the player plays, loc holds  *)
(* the component's state and the graph on display; applied is the list of  *)
(* step indices, counted from 0, that the interval callback has handed to  *)
(* applyStep.                                                              *)
(***************************************************************************)
\* resetGraphState: what it sets the displayed graph to
resetGraphState(g) ==
  [nodes |-> [i \in DOMAIN g.nodes |->
                [state |-> "default", distance |-> undefined] @@ g.nodes[i]],
   edges |-> [i \in DOMAIN g.edges |-> [isActive |-> FALSE] @@ g.edges[i]]]

Playing == pc = "player"

\* handlePlay of an idle player in auto-play mode, after the run method
\* has returned: the graph on display is the reset graph, currentStep is 0,
\* and the interval is started
HandlePlay ==
  /\ pc = "returned"
  /\ pc' = "player"
  /\ loc' = [method |-> loc.method, stepMode |-> FALSE, executionState |-> "running",
             currentStep |-> 0, displayed |-> resetGraphState(graphData),
             applied |-> <<>>]
  /\ UNCHANGED <<graphData, steps, operationLog, executions>>

\* the interval callback of handlePlay
StepInterval ==
  /\ Playing
  /\ ~loc.stepMode
  /\ loc.executionState = "running"
  /\ LET nextStep == loc.currentStep + 1
     IN IF nextStep < Len(steps)
        THEN loc' = [loc EXCEPT !.displayed = applyStep(loc.displayed, steps[nextStep + 1]),
                                !.applied = Append(loc.applied, nextStep),
                                !.currentStep = nextStep]
        ELSE loc' = [loc EXCEPT !.executionState = "completed"]
  /\ UNCHANGED <<graphData, pc, steps, operationLog, executions>>

\* the run methods that handlePlay and the Start button both offer, here
\* runBFS and runKruskals
NextPlayerRuns ==
  \/ \E s \in NodeIds(graphData) : RunBFS(s)
  \/ BFSIteration
  \/ BFSComplete
  \/ RunKruskals
  \/ KruskalsIteration
  \/ KruskalsComplete

\* Play is pressed once on an idle player in auto-play mode, and the
\* interval runs until it stops itself; Pause, Stop and Reset are not
\* pressed
InitAutoPlay == InitRerun

NextAutoPlay ==
  \/ NextPlayerRuns
  \/ HandlePlay
  \/ StepInterval

SpecAutoPlay == InitAutoPlay /\ [][NextAutoPlay]_vars

\* the Start button of the step-through mode, after the run method has
\* returned
StartStepThrough ==
  /\ pc = "returned"
  /\ pc' = "player"
  /\ loc' = [method |-> loc.method, stepMode |-> TRUE, executionState |-> "idle",
             currentStep |-> 0,
             displayed |-> IF Len(steps) > 0
                           THEN applyStep(resetGraphState(graphData), steps[1])
                           ELSE resetGraphState(graphData)]
  /\ UNCHANGED <<graphData, steps, operationLog, executions>>

\* the button is shown: step-through mode with steps to show
StepButtons == Playing /\ loc.stepMode /\ Len(steps) > 0

\* Go to First Step
GoToFirstStep ==
  /\ StepButtons
  /\ loc.currentStep # 0
  /\ loc' = [loc EXCEPT !.currentStep = 0,
                        !.displayed = applyStep(loc.displayed, steps[1])]
  /\ UNCHANGED <<graphData, pc, steps, operationLog, executions>>

\* Previous Step
PreviousStep ==
  /\ StepButtons
  /\ loc.currentStep # 0
  /\ loc.currentStep > 0
  /\ loc' = [loc EXCEPT !.currentStep = loc.currentStep - 1,
                        !.displayed = applyStep(loc.displayed, steps[loc.currentStep])]
  /\ UNCHANGED <<graphData, pc, steps, operationLog, executions>>

\* Next Step
NextStep ==
  /\ StepButtons
  /\ ~(loc.currentStep >= Len(steps) - 1)
  /\ loc.currentStep < Len(steps) - 1
  /\ loc' = [loc EXCEPT !.currentStep = loc.currentStep + 1,
                        !.displayed = applyStep(loc.displayed, steps[loc.currentStep + 2])]
  /\ UNCHANGED <<graphData, pc, steps, operationLog, executions>>

\* Go to Last Step
GoToLastStep ==
  /\ StepButtons
  /\ loc.currentStep # Len(steps) - 1
  /\ loc' = [loc EXCEPT !.currentStep = Len(steps) - 1,
                        !.displayed = applyStep(loc.displayed, steps[Len(steps)])]
  /\ UNCHANGED <<graphData, pc, steps, operationLog, executions>>

\* the step-through mode is on, Start is pressed once, and then the four
\* buttons in any order
InitStepThrough == InitRerun

NextStepThrough ==
  \/ NextPlayerRuns
  \/ StartStepThrough
  \/ GoToFirstStep
  \/ PreviousStep
  \/ NextStep
  \/ GoToLastStep

SpecStepThrough == InitStepThrough /\ [][NextStepThrough]_vars

(***************************************************************************)
(* Reference notions the properties are stated with.                       *)
(***************************************************************************)
\* one step along the edges from the node set S: source to target, and
\* also target to source when the edges are read as bidirectional
StepFrom(g, S, directed) ==
  S \cup {g.edges[x].target : x \in {y \in DOMAIN g.edges : g.edges[y].source \in S}}
    \cup (IF directed THEN {}
          ELSE {g.edges[x].source : x \in {y \in DOMAIN g.edges : g.edges[y].target \in S}})

RECURSIVE ReachIter(_, _, _, _)
ReachIter(g, S, directed, n) ==
  IF n = 0 THEN S ELSE ReachIter(g, StepFrom(g, S, directed), directed, n - 1)

\* the nodes with a path from s (the empty path included)
ReachableFrom(g, s, directed) == ReachIter(g, {s}, directed, Len(g.nodes))

\* the costs of the walks of at most one more edge than those of prev,
\* with the weights as the caller gave them
ExtendWalks(g, prev) ==
  [v \in NodeIds(g) |->
     prev[v] \cup UNION {{c + GivenWeight(g.edges[x]) : c \in prev[g.edges[x].source]} :
                          x \in {y \in DOMAIN g.edges : g.edges[y].target = v}}]

\* WalkCosts(g, s, k)[v]: the costs of the directed walks from s to v of
\* at most k edges
RECURSIVE WalkCosts(_, _, _)
WalkCosts(g, s, k) ==
  IF k = 0 THEN [v \in NodeIds(g) |-> IF v = s THEN {0} ELSE {}]
  ELSE ExtendWalks(g, WalkCosts(g, s, k - 1))

MinOf(S) == CHOOSE c \in S : \A d \in S : c <= d

\* the true shortest-path distance by exhaustive search over the walks of
\* at most |V|-1 edges (every simple path is one of them)
ShortestOf(costs) == IF costs = {} THEN Infinity ELSE Num(MinOf(costs))

TrueDistance(g, s, v) == ShortestOf(WalkCosts(g, s, Len(g.nodes) - 1)[v])

\* a cycle of negative total weight through v: a closed walk of at most
\* |V| edges with negative cost
OnNegativeCycle(g, v) == \E c \in WalkCosts(g, v, Len(g.nodes))[v] : c < 0

HasReachableNegativeCycle(g, s) ==
  \E v \in ReachableFrom(g, s, TRUE) : OnNegativeCycle(g, v)

\* every node is joined to every other when the edges are read as
\* bidirectional
IsConnected(g) == ReachableFrom(g, g.nodes[1].id, FALSE) = NodeIds(g)

RECURSIVE GivenWeightSum(_, _)
GivenWeightSum(g, T) ==
  IF T = {} THEN 0
  ELSE LET x == CHOOSE y \in T : TRUE
       IN GivenWeight(g.edges[x]) + GivenWeightSum(g, T \ {x})

\* the sets of edge positions that form a spanning tree of g
SpanningTrees(g) ==
  {T \in SUBSET DOMAIN g.edges :
     /\ Cardinality(T) = Len(g.nodes) - 1
     /\ IsConnected([nodes |-> g.nodes, edges |-> SelectIdx(g.edges, T, 1)])}

\* the weight of a minimum spanning tree of a connected graph, by
\* exhaustive search
MinSpanningWeight(g) == MinOf({GivenWeightSum(g, T) : T \in SpanningTrees(g)})

\* the capacity of a minimum cut between s and t, by exhaustive search over
\* the node sets that hold s and not t: every edge from the set to its
\* complement counts with its weight
CutCapacity(g, S) ==
  GivenWeightSum(g, {x \in DOMAIN g.edges :
                       g.edges[x].source \in S /\ g.edges[x].target \notin S})

MinCutCapacity(g, s, t) ==
  MinOf({CutCapacity(g, S \cup {s}) : S \in SUBSET (NodeIds(g) \ {s, t})})

AllWeightsNonNegative(g) == \A x \in DOMAIN g.edges : GivenWeight(g.edges[x]) >= 0

Leq(a, b) == ~Lt(b, a)

FWReturned == pc = "returned" /\ loc.method = "runFloydWarshall"

(***************************************************************************)
(* C1: runDijkstra                                                         *)
(***************************************************************************)
DijkstraReturned == pc = "returned" /\ loc.method = "runDijkstra"

\* C1: for every graph whose weights are non-negative integers (0
\* included) and every start node, the distance of every node in the matrix
\* of the final step is the true directed shortest-path distance from the
\* start node, Infinity exactly for the nodes without a directed path.
C1_DijkstraShortest ==
  (DijkstraReturned /\ AllWeightsNonNegative(graphData)) =>
    \A v \in NodeIds(graphData) :
      LastStep.matrix[v] = TrueDistance(graphData, loc.startNodeId, v)

(***************************************************************************)
(* C2: runBFS and runDFS                                                   *)
(***************************************************************************)
TraversalReturned == pc = "returned" /\ loc.method \in {"runBFS", "runDFS"}

\* the (step, entry) positions of the nodeUpdates that mark node v 'visited'
VisitedUpdates(v) ==
  {p \in UNION {{<<x, y>> : y \in DOMAIN steps[x].nodeUpdates} : x \in DOMAIN steps} :
     LET nu == steps[p[1]].nodeUpdates[p[2]]
     IN nu.id = v /\ "state" \in DOMAIN nu /\ nu.state = "visited"}

\* C2: for runBFS and runDFS on any graph and start node, the nodes that
\* receive a nodeUpdate with state 'visited' are exactly the nodes reachable
\* from the start node with every edge read as bidirectional, and each of
\* them receives that update exactly once.
C2_VisitedIsReachable ==
  TraversalReturned =>
    \A v \in NodeIds(graphData) :
      Cardinality(VisitedUpdates(v)) =
        IF v \in ReachableFrom(graphData, loc.startNodeId, FALSE) THEN 1 ELSE 0

\* a depth-first run over a graph whose nodes are all reachable, one of
\* them only against the direction of its edge, has returned after it
\* popped a node a second time
C2_Witness ==
  /\ TraversalReturned
  /\ loc.method = "runDFS"
  /\ Len(graphData.nodes) = MaxNodes
  /\ ReachableFrom(graphData, loc.startNodeId, FALSE) = NodeIds(graphData)
  /\ ReachableFrom(graphData, loc.startNodeId, TRUE) # NodeIds(graphData)
  /\ \E x \in DOMAIN steps : operationLog[x].operation = "Node already visited"

(***************************************************************************)
(* C3, C4: runBellmanFord                                                  *)
(***************************************************************************)
BFReturned == pc = "returned" /\ loc.method = "runBellmanFord"

IsNegativeCycleStep(x) ==
  /\ operationLog[x].operation = "Negative cycle detected"
  /\ steps[x].description =
       "Negative weight cycle detected! Algorithm cannot find shortest paths."

IsBFCompleteStep(x) == operationLog[x].operation = "Bellman-Ford Complete"

\* C3: a negative-cycle step, if present, is the last step of the trace
\* and the trace holds no 'Bellman-Ford Complete' step; a trace without the
\* negative-cycle step ends with its only 'Bellman-Ford Complete' step.
C3_BellmanFordOutcome ==
  loc.method = "runBellmanFord" =>
    /\ \A x \in DOMAIN steps :
         /\ IsNegativeCycleStep(x) =>
              /\ x = Len(steps)
              /\ pc = "returned"
              /\ \A y \in DOMAIN steps : ~IsBFCompleteStep(y)
         /\ IsBFCompleteStep(x) => x = Len(steps) /\ pc = "returned"
    /\ pc = "returned" =>
         \/ IsNegativeCycleStep(Len(steps))
         \/ IsBFCompleteStep(Len(steps))

\* a run that relaxed some edge in a pass has returned with the
\* negative-cycle step
C3_Witness ==
  /\ BFReturned
  /\ IsNegativeCycleStep(Len(steps))
  /\ \E x \in DOMAIN steps : operationLog[x].operation = "Distance updated"

\* C4: for every graph with integer weights (negative, zero or positive)
\* and every start node, the trace holds the negative-cycle step if and only
\* if the graph has a cycle of negative total weight that is reachable from
\* the start node along directed edges.
C4_NegativeCycleIff ==
  BFReturned =>
    ((\E x \in DOMAIN steps : IsNegativeCycleStep(x))
       <=> HasReachableNegativeCycle(graphData, loc.startNodeId))

(***************************************************************************)
(* C5, C6: runPrims and runKruskals                                        *)
(***************************************************************************)
MSTReturned == pc = "returned" /\ loc.method \in {"runPrims", "runKruskals"}

\* the (step, entry) positions of the edgeUpdates with inTree true
InTreeUpdates ==
  {p \in UNION {{<<x, y>> : y \in DOMAIN steps[x].edgeUpdates} : x \in DOMAIN steps} :
     LET eu == steps[p[1]].edgeUpdates[p[2]]
     IN "inTree" \in DOMAIN eu /\ eu.inTree}

\* the ids of the edges that the trace marks inTree
InTreeEdges == {steps[p[1]].edgeUpdates[p[2]].id : p \in InTreeUpdates}

\* C5: for every graph that is connected with its edges read as
\* undirected, the trace of runPrims (from any start node) and the trace of
\* runKruskals hold exactly |V|-1 edgeUpdates entries with inTree true,
\* each for a different edge.
C5_TreeEdgeCount ==
  (MSTReturned /\ IsConnected(graphData)) =>
    /\ Cardinality(InTreeUpdates) = Len(graphData.nodes) - 1
    /\ Cardinality(InTreeEdges) = Len(graphData.nodes) - 1

\* a run of runPrims on a connected graph of MaxNodes nodes has returned
\* after it skipped an edge between two visited nodes and after it reached
\* a node against the direction of an edge
C5_Witness ==
  /\ MSTReturned
  /\ loc.method = "runPrims"
  /\ IsConnected(graphData)
  /\ Len(graphData.nodes) = MaxNodes
  /\ ReachableFrom(graphData, loc.startNodeId, TRUE) # NodeIds(graphData)
  /\ \E x \in DOMAIN steps : operationLog[x].operation = "Skip edge (creates cycle)"

\* C6: for every connected graph with integer weights (0 included), the
\* weights of the edges that runPrims, and runKruskals, mark inTree add up
\* to the weight of a minimum spanning tree found by exhaustive search.
C6_TreeWeightMinimal ==
  (MSTReturned /\ IsConnected(graphData)) =>
    GivenWeightSum(graphData, InTreeEdges) = MinSpanningWeight(graphData)

(***************************************************************************)
(* C7..C10: runFloydWarshall                                               *)
(***************************************************************************)
\* C7: runFloydWarshall respects edge direction: in the matrix of the last
\* step no pair (u, v) without a directed path from u to v has a finite
\* distance.  (The null that the snapshot holds in place of Infinity, see
\* C10, is not counted against this statement.)
C7_DirectionRespected ==
  FWReturned =>
    \A u \in NodeIds(graphData), v \in NodeIds(graphData) :
      v \notin ReachableFrom(graphData, u, TRUE) => ~IsNumber(LastStep.matrix[u][v])

\* C8: the matrix of the first step has 0 on the diagonal, the weight of a
\* joining edge (the same in both directions) for every pair joined by an
\* edge in either direction, and Infinity for every other pair.
C8_InitialMatrix ==
  (loc.method = "runFloydWarshall" /\ Len(steps) >= 1) =>
    \A u \in NodeIds(graphData), v \in NodeIds(graphData) :
      LET m == steps[1].matrix
          joining == {x \in DOMAIN graphData.edges : FWJoins(graphData.edges[x], u, v)}
      IN IF u = v THEN m[u][v] = Num(0)
         ELSE IF joining # {}
         THEN /\ m[u][v] = m[v][u]
              /\ \E x \in joining : m[u][v] = Num(GivenWeight(graphData.edges[x]))
         ELSE m[u][v] = Infinity

\* the triangle inequality and the zero diagonal of a distance matrix: a sum
\* with an entry that is not a number bounds nothing, and a sum of two
\* numbers bounds only a number
TriangleAndDiagonal(m, ids) ==
  /\ \A v \in ids : m[v][v] = Num(0)
  /\ \A i \in ids, j \in ids, k \in ids :
       (IsNumber(m[i][k]) /\ IsNumber(m[k][j])) =>
         /\ IsNumber(m[i][j])
         /\ Leq(m[i][j], Add(m[i][k], m[k][j]))

\* C9 as stated: for every input graph with integer weights the final
\* matrix satisfies dist[i][j] <= dist[i][k] + dist[k][j] for all i, j, k
\* and dist[v][v] = 0 for every v.
C9_Original ==
  FWReturned => TriangleAndDiagonal(LastStep.matrix, NodeIds(graphData))

\* C9 amended: for every input graph whose weights are all non-negative
\* integers, the final matrix satisfies dist[i][j] <= dist[i][k] + dist[k][j]
\* for all i, j, k and dist[v][v] = 0 for every v.
C9_TriangleNonNegative ==
  (FWReturned /\ AllWeightsNonNegative(graphData)) =>
    TriangleAndDiagonal(LastStep.matrix, NodeIds(graphData))

\* a run on non-negative weights has returned after shortening some
\* distance through an intermediate node
C9_Witness ==
  /\ FWReturned
  /\ AllWeightsNonNegative(graphData)
  /\ \E x \in DOMAIN steps : steps[x].description = "Updated shortest path"
  /\ \E u \in NodeIds(graphData), v \in NodeIds(graphData) :
       /\ u # v
       /\ IsNumber(steps[1].matrix[u][v])
       /\ Lt(LastStep.matrix[u][v], steps[1].matrix[u][v])

\* C10: in every matrix snapshot of a runFloydWarshall step, the entry of
\* a pair of nodes with no connecting path is Infinity, the algorithm's
\* internal distance value.
C10_SnapshotInfinity ==
  loc.method = "runFloydWarshall" =>
    \A x \in DOMAIN steps :
      \A u \in NodeIds(graphData), v \in NodeIds(graphData) :
        v \notin ReachableFrom(graphData, u, FALSE) =>
          /\ steps[x].matrix[u][v] = Infinity
          /\ steps[x].matrix[u][v] = loc.dist[u][v]

FFReturned == pc = "returned" /\ loc.method = "runFordFulkerson"

\* C11: for positive integer capacities and a source different from the
\* sink, the max-flow value that the final step of runFordFulkerson reports
\* equals the capacity of a minimum source-sink cut of the graph.
C11_MaxFlowMinCut ==
  (FFReturned /\ loc.sourceId # loc.sinkId) =>
    LastStep.result = <<MinCutCapacity(graphData, loc.sourceId, loc.sinkId)>>

\* C18: runFordFulkerson terminates with its final step for every source
\* and sink, the source equal to the sink included: every iteration of
\* while (bfs()) changes the residual capacities that bfs() searches.  (An
\* iteration that leaves them unchanged is followed by the same iteration
\* for ever, and the final step never comes.)
C18_LoopProgress ==
  [][(pc = "ff_while" /\ pc' = "ff_while") => loc'.capacity # loc.capacity]_vars

AStarReturned == pc = "returned" /\ loc.method = "runAStar"

IsPathFoundStep(x) == steps[x].description = "Path found with total cost"

IsNoPathStep(x) ==
  steps[x].description = "Algorithm finished: no path found to the destination."

\* C16: with positive weights, the runAStar trace ends with the 'path
\* found' step exactly when a directed path leads from the start node to the
\* end node; the step's result then starts at the start node, ends at the
\* end node and joins consecutive nodes by an edge from the one to the next;
\* otherwise the trace ends with the 'no path' step.
C16_PathFoundIff ==
  AStarReturned =>
    IF loc.endNodeId \in ReachableFrom(graphData, loc.startNodeId, TRUE)
    THEN /\ IsPathFoundStep(Len(steps))
         /\ LET path == LastStep.result
            IN /\ path[1] = loc.startNodeId
               /\ path[Len(path)] = loc.endNodeId
               /\ \A i \in 1..(Len(path) - 1) :
                    \E x \in DOMAIN graphData.edges :
                      /\ graphData.edges[x].source = path[i]
                      /\ graphData.edges[x].target = path[i + 1]
    ELSE IsNoPathStep(Len(steps))

\* a run on placed nodes has found a path of two edges, and another edge
\* leaves the start node
C16_Witness ==
  /\ AStarReturned
  /\ "x" \in DOMAIN graphData.nodes[1]
  /\ IsPathFoundStep(Len(steps))
  /\ Len(LastStep.result) = 3
  /\ Len(graphData.edges) = 3

C17_AStarAgreesWithDijkstra ==
  (DijkstraReturned /\ executions # <<>>) =>
    LET astar == executions[1]
        found == astar.execution.steps[Len(astar.execution.steps)]
    IN found.description = "Path found with total cost" =>
         found.matrix.gScore[astar.call.endNodeId] = LastStep.matrix[astar.call.endNodeId]

\* runAStar found a path of two edges although an edge joins the start node
\* to the end node, and runDijkstra has returned after it
C17_Witness ==
  /\ DijkstraReturned
  /\ executions # <<>>
  /\ LET astar == executions[1]
         found == astar.execution.steps[Len(astar.execution.steps)]
     IN /\ found.description = "Path found with total cost"
        /\ Len(found.result) = 3
        /\ \E x \in DOMAIN graphData.edges :
             /\ graphData.edges[x].source = astar.call.startNodeId
             /\ graphData.edges[x].target = astar.call.endNodeId

\* the distances that step x records for node v: in its matrix and in its
\* node updates
RecordedDistances(x, v) ==
  (IF "matrix" \in DOMAIN steps[x]
   THEN {IF loc.method = "runAStar" THEN steps[x].matrix.gScore[v]
         ELSE steps[x].matrix[v]}
   ELSE {})
  \cup {steps[x].nodeUpdates[i].distance :
          i \in {j \in DOMAIN steps[x].nodeUpdates :
                   /\ steps[x].nodeUpdates[j].id = v
                   /\ "distance" \in DOMAIN steps[x].nodeUpdates[j]}}

\* C15: in runDijkstra, runBellmanFord and runAStar a node without a
\* directed path from the start node has distance Infinity in every step of
\* the trace (and in the method's own table), also when edges pointing the
\* other way join it to the start node.
C15_OnlySourceToTarget ==
  loc.method \in {"runDijkstra", "runBellmanFord", "runAStar"} =>
    \A v \in NodeIds(graphData) \ ReachableFrom(graphData, loc.startNodeId, TRUE) :
      /\ \A x \in DOMAIN steps : RecordedDistances(x, v) \subseteq {Infinity}
      /\ IF loc.method = "runAStar" THEN loc.gScore[v] = Infinity
         ELSE loc.distances[v] = Infinity

\* a run has returned on a graph where an edge points from a node to the
\* start node, no path leads from the start node to that node, and another
\* node was given a finite distance
C15_Witness ==
  /\ pc = "returned"
  /\ loc.method \in {"runDijkstra", "runBellmanFord", "runAStar"}
  /\ \E v \in NodeIds(graphData) \ ReachableFrom(graphData, loc.startNodeId, TRUE) :
       \E x \in DOMAIN graphData.edges :
         graphData.edges[x].source = v /\ graphData.edges[x].target = loc.startNodeId
  /\ \E x \in DOMAIN steps, v \in NodeIds(graphData) \ {loc.startNodeId} :
       \E d \in RecordedDistances(x, v) : IsNumber(d)

\* C13: applying the node updates of every step of a runDijkstra or
\* runBellmanFord trace, in order, to a copy of the input graph leaves every
\* node with the distance that the matrix of the last step shows for it.
C13_ReplayedDistances ==
  (pc = "returned" /\ loc.method \in {"runDijkstra", "runBellmanFord"}) =>
    LET shown == Replayed(graphData, steps, Len(steps))
    IN \A i \in DOMAIN shown.nodes :
         /\ "distance" \in DOMAIN shown.nodes[i]
         /\ shown.nodes[i].distance = LastStep.matrix[shown.nodes[i].id]

\* runBellmanFord has returned after it lowered a distance that it had
\* already set
C13_Witness ==
  /\ pc = "returned"
  /\ loc.method = "runBellmanFord"
  /\ \E v \in NodeIds(graphData) :
       Cardinality({x \in DOMAIN steps :
                      \E d \in RecordedDistances(x, v) :
                        /\ steps[x].description = "Updated distance to"
                        /\ FindUpdate(steps[x].nodeUpdates, v) # 0}) >= 2

\* C14: every edgeUpdates entry of every step carries an id field that is
\* the id of an edge of the input graph.
C14_EdgeUpdatesHaveIds ==
  \A x \in DOMAIN steps :
    \A i \in DOMAIN steps[x].edgeUpdates :
      /\ "id" \in DOMAIN steps[x].edgeUpdates[i]
      /\ \E y \in DOMAIN graphData.edges :
           graphData.edges[y].id = steps[x].edgeUpdates[i].id

\* the edge of the input graph with the given id
EdgeWithId(g, id) == g.edges[CHOOSE y \in DOMAIN g.edges : g.edges[y].id = id]

\* C19: an edge's weight is used exactly as given whenever the weight field
\* is present, 0 included: the distance that an 'Update distance' step of
\* runDijkstra gives to the edge's target is the distance of the edge's
\* source plus the weight given for the edge.
C19_WeightAsGiven ==
  loc.method = "runDijkstra" =>
    \A x \in DOMAIN steps :
      steps[x].description = "Update distance to" =>
        LET edge == EdgeWithId(graphData, steps[x].edgeUpdates[1].id)
        IN steps[x].nodeUpdates[1].distance
             = Add(steps[x].matrix[edge.source], Num(GivenWeight(edge)))

C23_OneLogEntryPerStep ==
  Returned =>
    /\ Len(operationLog) = Len(steps)
    /\ \A i \in DOMAIN steps :
         /\ steps[i].id = i - 1
         /\ operationLog[i].iteration = steps[i].id

\* a traversal has returned a trace of at least eight steps
C23_Witness ==
  /\ Returned
  /\ Len(steps) >= 8
  /\ Len(operationLog) = Len(steps)

(***************************************************************************)
(* C25: getAlgorithmCode                                                   *)
(***************************************************************************)
AliasOf(name) ==
  IF name = "bellman-ford" THEN "bellman_ford"
  ELSE IF name = "prim" THEN "prims"
  ELSE IF name = "kruskal" THEN "kruskals"
  ELSE name

\* C25: getAlgorithmCode returns ['Algorithm not implemented'] for every
\* name that is neither a key of the listings nor an alias, and an alias
\* gets the listing of the key it stands for
C25_UnknownNameNotImplemented ==
  \A i \in DOMAIN executions :
    /\ AliasOf(executions[i].call.algorithm) \notin DOMAIN algorithms
         => executions[i].returned = NotImplemented
    /\ \A j \in DOMAIN executions :
         AliasOf(executions[i].call.algorithm) = executions[j].call.algorithm
           => executions[i].returned = executions[j].returned

(***************************************************************************)
(* C24: ids in the steps, labels in the operation log                      *)
(***************************************************************************)
AuxiliaryFields == {"queue", "stack", "result", "list"}

\* the label of the node with the given id
LabelOfId(g, id) == g.nodes[CHOOSE i \in DOMAIN g.nodes : g.nodes[i].id = id].label

\* C24: in a runBFS or runDFS trace every queue, stack and result sequence
\* of a step holds node ids of the graph, and the operation-log entry of the
\* step holds the same sequence with the label of each node in place of its
\* id, whatever the labels are
C24_IdsInStepsLabelsInLog ==
  \A i \in DOMAIN steps :
    \A f \in AuxiliaryFields \cap DOMAIN steps[i] :
      /\ Range(steps[i][f]) \subseteq NodeIds(graphData)
      /\ operationLog[i][f] =
           [k \in DOMAIN steps[i][f] |-> LabelOfId(graphData, steps[i][f][k])]

(***************************************************************************)
(* C26..C28: the frontier and the visiting order of runBFS and runDFS      *)
(***************************************************************************)
NoDuplicates(s) == \A i \in DOMAIN s : \A j \in DOMAIN s : s[i] = s[j] => i = j

\* C26: at every point of a run the queue of runBFS and the stack of runDFS
\* hold no node id twice
C26_FrontierHasNoDuplicates ==
  /\ loc.method = "runBFS" => NoDuplicates(loc.queue)
  /\ loc.method = "runDFS" => NoDuplicates(loc.stack)

\* the positions of the steps that carry a node update for the node
UpdatesOf(id) ==
  {i \in DOMAIN steps : \E k \in DOMAIN steps[i].nodeUpdates : steps[i].nodeUpdates[k].id = id}

\* C27: in a runBFS or runDFS trace no step after the one that sets a
\* node's state to 'visited' carries a node update for that node
C27_NoUpdateAfterVisited ==
  \A i \in DOMAIN steps : \A k \in DOMAIN steps[i].nodeUpdates :
    steps[i].nodeUpdates[k].state = "visited" =>
      \A j \in UpdatesOf(steps[i].nodeUpdates[k].id) : j <= i

\* a traversal has returned after it visited three nodes, the last of which
\* a step before had made 'current'
C27_Witness ==
  /\ Returned
  /\ \E i \in DOMAIN steps : \E j \in DOMAIN steps :
       /\ j < i
       /\ steps[i].description = "Visited node"
       /\ steps[j].description \in {"Added to queue", "Added to stack"}
       /\ steps[j].nodeUpdates[1].id = steps[i].nodeUpdates[1].id
       /\ Cardinality({n \in NodeIds(graphData) : UpdatesOf(n) # {}}) = 3

\* the least number of edges of a path from s to v, edges read as
\* bidirectional; v is reachable from s
HopDistance(g, s, v) ==
  CHOOSE n \in 0..Len(g.nodes) :
    /\ v \in ReachIter(g, {s}, FALSE, n)
    /\ \A k \in 0..(n - 1) : v \notin ReachIter(g, {s}, FALSE, k)

\* the position of the first edge that joins p and v
FirstEdgeBetween(g, p, v) ==
  CHOOSE x \in DOMAIN g.edges :
    /\ {g.edges[x].source, g.edges[x].target} = {p, v}
    /\ \A y \in 1..(x - 1) : {g.edges[y].source, g.edges[y].target} # {p, v}

\* the nodes that runBFS enqueued from node p, by the 'Enqueue neighbor' steps
EnqueuedFrom(p) ==
  {steps[i].edgeUpdates[1].target :
     i \in {j \in DOMAIN steps : /\ steps[j].description = "Added to queue"
                                 /\ steps[j].edgeUpdates[1].source = p}}

PositionIn(s, v) == CHOOSE i \in DOMAIN s : s[i] = v

BFSReturned == pc = "returned" /\ loc.method = "runBFS"

\* C28: in the final result sequence of runBFS the hop distance from the
\* start node never decreases, and two nodes enqueued from the same node
\* are visited in the order of the edges that join them to it
C28_LevelByLevel ==
  BFSReturned =>
    LET result == LastStep.result
    IN /\ \A i \in DOMAIN result : \A j \in DOMAIN result :
            i < j => HopDistance(graphData, loc.startNodeId, result[i])
                       <= HopDistance(graphData, loc.startNodeId, result[j])
       /\ \A p \in NodeIds(graphData) :
            \A u \in EnqueuedFrom(p) : \A v \in EnqueuedFrom(p) :
              FirstEdgeBetween(graphData, p, u) < FirstEdgeBetween(graphData, p, v)
                => PositionIn(result, u) < PositionIn(result, v)

\* runBFS has returned after it visited four nodes, two of them enqueued
\* from the start node and one two hops away from it
C28_Witness ==
  /\ BFSReturned
  /\ Len(LastStep.result) = 4
  /\ Cardinality(EnqueuedFrom(loc.startNodeId)) = 2
  /\ HopDistance(graphData, loc.startNodeId, LastStep.result[4]) = 2

(***************************************************************************)
(* C29: the matrix snapshots of runDijkstra                                *)
(***************************************************************************)
\* C29: in a runDijkstra trace the initial step, every 'Process current
\* node' step and every 'Update distance' step carries a matrix with the
\* distance of every node
C29_MatrixOnInitVisitRelax ==
  loc.method = "runDijkstra" =>
    \A i \in DOMAIN steps :
      operationLog[i].operation
          \in {"Initialize Dijkstra", "Process current node", "Update distance"}
        => /\ "matrix" \in DOMAIN steps[i]
           /\ DOMAIN steps[i].matrix = NodeIds(graphData)

(***************************************************************************)
(* C30: the passes of runBellmanFord                                       *)
(***************************************************************************)
\* the positions of the steps with the given title
StepsTitled(title) == {i \in DOMAIN steps : operationLog[i].operation = title}

\* the passes made so far: each ends with a 'Matrix State' step
PassesMade == Cardinality(StepsTitled("Matrix State"))

\* the pass in which step i was made
PassOf(i) == Cardinality({j \in StepsTitled("Matrix State") : j < i}) + 1

\* the positions of the 'Relaxing edge' steps of pass k
ExaminedIn(k) == {i \in StepsTitled("Relaxing edge") : PassOf(i) = k}

\* C30: runBellmanFord makes at most |V| - 1 passes (none when |V| = 1),
\* each pass examines every edge once in the order of the edge list, no edge
\* is examined outside a pass, and a pass after the first is made only when
\* the pass before it updated a distance
C30_Passes ==
  BFReturned =>
    /\ PassesMade <= Len(graphData.nodes) - 1
    /\ \A k \in 1..PassesMade :
         /\ Cardinality(ExaminedIn(k)) = Len(graphData.edges)
         /\ \A i \in ExaminedIn(k) :
              steps[i].edgeUpdates[1].id
                = graphData.edges[Cardinality({j \in ExaminedIn(k) : j < i}) + 1].id
         /\ k > 1 => \E i \in StepsTitled("Distance updated") : PassOf(i) = k - 1
    /\ ExaminedIn(PassesMade + 1) = {}

\* runBellmanFord has returned after two passes over three edges
C30_Witness ==
  /\ BFReturned
  /\ PassesMade = 2
  /\ Len(graphData.edges) = 3
  /\ Cardinality(StepsTitled("Relaxing edge")) = 6

(***************************************************************************)
(* C31: the distances of runBellmanFord                                    *)
(***************************************************************************)
\* C31: on a graph with integer weights and no cycle of negative weight
\* reachable from the start node, runBellmanFord ends with its completion
\* step, whose matrix holds for every node the true directed shortest-path
\* distance from the start node, Infinity for a node without a path
C31_BellmanFordShortest ==
  (BFReturned /\ ~HasReachableNegativeCycle(graphData, loc.startNodeId)) =>
    /\ IsBFCompleteStep(Len(steps))
    /\ \A v \in NodeIds(graphData) :
         LastStep.matrix[v] = TrueDistance(graphData, loc.startNodeId, v)

(***************************************************************************)
(* C32: the order and the end of runKruskals                               *)
(***************************************************************************)
\* the edge that step i of a runKruskals or runPrims trace is about
EdgeOfStep(i) == EdgeWithId(graphData, steps[i].edgeUpdates[1].id)

\* C32: runKruskals considers the edges in ascending order of weight, equal
\* weights in input order, and no 'Consider next edge' step is made when the
\* edges accepted before it already number |V| - 1
C32_KruskalsStopsWhenTreeComplete ==
  loc.method = "runKruskals" =>
    /\ \A i \in StepsTitled("Consider next edge") :
         Cardinality({j \in StepsTitled("Add edge to MST") : j < i})
           < Len(graphData.nodes) - 1
    /\ \A i \in StepsTitled("Consider next edge") :
         \A j \in StepsTitled("Consider next edge") :
           i < j =>
             \/ GivenWeight(EdgeOfStep(i)) < GivenWeight(EdgeOfStep(j))
             \/ /\ GivenWeight(EdgeOfStep(i)) = GivenWeight(EdgeOfStep(j))
                /\ EdgeOfStep(i).id < EdgeOfStep(j).id

(***************************************************************************)
(* C33: runPrims on a graph that is not connected                          *)
(***************************************************************************)
PrimsReturned == pc = "returned" /\ loc.method = "runPrims"

\* the nodes that some step of the trace marks 'visited'
VisitedNodes == {v \in NodeIds(graphData) : VisitedUpdates(v) # {}}

\* C33: on a graph that is not connected runPrims returns with its
\* completion step as the last step; the nodes it marked visited are exactly
\* those joined to the start node by edges read as undirected, and the edges
\* it marked inTree number one less than these nodes
C33_PrimsSpansComponent ==
  (PrimsReturned /\ ~IsConnected(graphData)) =>
    /\ operationLog[Len(steps)].operation = "Prim's Complete"
    /\ VisitedNodes = ReachableFrom(graphData, loc.startNodeId, FALSE)
    /\ Cardinality(InTreeUpdates) = Cardinality(VisitedNodes) - 1
    /\ Cardinality(InTreeEdges) = Cardinality(VisitedNodes) - 1

\* runPrims has returned on a graph of three nodes of which it reached two,
\* the second against the direction of an edge, and skipped an edge
C33_Witness ==
  /\ PrimsReturned
  /\ ~IsConnected(graphData)
  /\ Len(graphData.nodes) = 3
  /\ Cardinality(VisitedNodes) = 2
  /\ ReachableFrom(graphData, loc.startNodeId, TRUE) = {loc.startNodeId}
  /\ StepsTitled("Skip edge (creates cycle)") # {}

(***************************************************************************)
(* C36, C37: the edges marked inTree by runPrims and runKruskals           *)
(***************************************************************************)
\* step i carries an edge update for the edge with the given id that sets
\* the given flag
SetsFlag(i, id, flag) ==
  \E k \in DOMAIN steps[i].edgeUpdates :
    LET eu == steps[i].edgeUpdates[k]
    IN eu.id = id /\ flag \in DOMAIN eu /\ eu[flag]

\* C36: in a runPrims or runKruskals trace an edge marked inTree by a step
\* is not marked isError by that step or a later one, and after the replay
\* of the returned trace no edge is both inTree and isError
C36_TreeEdgeNeverError ==
  loc.method \in {"runPrims", "runKruskals"} =>
    /\ \A i \in DOMAIN steps : \A j \in DOMAIN steps :
         \A x \in DOMAIN graphData.edges :
           (i <= j /\ SetsFlag(i, graphData.edges[x].id, "inTree"))
             => ~SetsFlag(j, graphData.edges[x].id, "isError")
    /\ MSTReturned =>
         LET shown == Replayed(graphData, steps, Len(steps))
         IN \A x \in DOMAIN shown.edges :
              ~(/\ "inTree" \in DOMAIN shown.edges[x] /\ shown.edges[x].inTree
                /\ "isError" \in DOMAIN shown.edges[x] /\ shown.edges[x].isError)

\* the graph g with only the edges whose ids are in T
WithEdges(g, T) ==
  [nodes |-> g.nodes,
   edges |-> SelectIdx(g.edges, {x \in DOMAIN g.edges : g.edges[x].id \in T}, 1)]

\* the sets of nodes joined to each other by the edges of g read as
\* undirected
ComponentsOf(g) == {ReachableFrom(g, v, FALSE) : v \in NodeIds(g)}

\* the edges with ids in T form no cycle: every edge of a forest joins two
\* of its components into one
IsForest(g, T) ==
  Cardinality(T) = Len(g.nodes) - Cardinality(ComponentsOf(WithEdges(g, T)))

\* C37: at every point of a runPrims and of a runKruskals trace the edges
\* marked inTree so far form a forest when read as undirected, and none of
\* them was marked twice
C37_TreeEdgesFormForest ==
  loc.method \in {"runPrims", "runKruskals"} =>
    /\ IsForest(graphData, InTreeEdges)
    /\ Cardinality(InTreeUpdates) = Cardinality(InTreeEdges)

\* a run on a graph with a self-loop and two parallel edges has returned
\* with one edge of its three in the tree
C37_Witness ==
  /\ MSTReturned
  /\ Cardinality(InTreeEdges) = 1
  /\ Len(graphData.edges) = 3
  /\ \E x \in DOMAIN graphData.edges : graphData.edges[x].source = graphData.edges[x].target
  /\ \E x \in DOMAIN graphData.edges : \E y \in DOMAIN graphData.edges :
       /\ x # y
       /\ graphData.edges[x].source # graphData.edges[x].target
       /\ {graphData.edges[x].source, graphData.edges[x].target}
            = {graphData.edges[y].source, graphData.edges[y].target}

(***************************************************************************)
(* C34: the terminal step                                                  *)
(***************************************************************************)
TerminalTitles ==
  {"BFS Complete", "DFS Complete", "Dijkstra Complete", "Floyd-Warshall Complete",
   "Ford-Fulkerson Complete", "Bellman-Ford Complete", "Negative cycle detected",
   "Path found", "A* Complete - No Path", "Prim's Complete", "Kruskal's Complete"}

\* C34: a trace holds a terminal step only as its last step and only when
\* the method has returned, every returned trace ends with one, and runBFS
\* and runDFS add theirs only when the queue or the stack is empty
C34_OneTerminalStepLast ==
  /\ \A i \in DOMAIN steps :
       operationLog[i].operation \in TerminalTitles => (i = Len(steps) /\ Returned)
  /\ Returned => (steps # <<>> /\ operationLog[Len(steps)].operation \in TerminalTitles)
  /\ (Returned /\ loc.method = "runBFS") => loc.queue = <<>>
  /\ (Returned /\ loc.method = "runDFS") => loc.stack = <<>>

\* runBFS has returned with its completion step after it
\* visited three nodes
C34_Witness ==
  /\ Returned
  /\ loc.method = "runBFS"
  /\ operationLog[Len(steps)].operation = "BFS Complete"
  /\ Len(loc.visitOrder) = 3
  /\ Len(steps) >= 9

(***************************************************************************)
(* C35: the code line of a step                                            *)
(***************************************************************************)
\* the name under which the listing of a run method is asked for: the
\* page's key where the page offers the algorithm, the listing's key
\* otherwise
ListingNameOf(method) ==
  CASE method = "runBFS" -> "bfs"
    [] method = "runDFS" -> "dfs"
    [] method = "runDijkstra" -> "dijkstra"
    [] method = "runBellmanFord" -> "bellman-ford"
    [] method = "runPrims" -> "prim"
    [] method = "runKruskals" -> "kruskal"
    [] method = "runFloydWarshall" -> "floyd-warshall"
    [] method = "runFordFulkerson" -> "ford-fulkerson"
    [] method = "runAStar" -> "a_star"

\* C35: the codeLine of every step of a run method's trace is a line number
\* of the listing that getAlgorithmCode returns for the method's algorithm,
\* counted from 1
C35_CodeLineInListing ==
  loc.method # "none" =>
    \A i \in DOMAIN steps :
      /\ 1 <= steps[i].codeLine
      /\ steps[i].codeLine <= getAlgorithmCode(ListingNameOf(loc.method)).length

\* runBellmanFord has returned with a step on the last line of its listing
C35_Witness ==
  /\ BFReturned
  /\ LastStep.codeLine = getAlgorithmCode("bellman-ford").length
  /\ LastStep.codeLine = 10

(***************************************************************************)
(* C38: the residual capacities of runFordFulkerson                        *)
(***************************************************************************)
\* the least residual capacity, in the matrix m, along the path of at
\* least one edge
BottleneckIn(m, path) ==
  MinOf({m[path[k]][path[k + 1]].n : k \in 1..(Len(path) - 1)})

\* the bottleneck of the 'Augment path' step j: the least residual capacity
\* along its path in the snapshot of the step before
BottleneckOf(j) == BottleneckIn(steps[j - 1].matrix, steps[j].list)

\* the sum of the bottlenecks of the 'Augment path' steps at the positions S
RECURSIVE BottleneckSum(_)
BottleneckSum(S) ==
  IF S = {} THEN 0
  ELSE LET j == CHOOSE y \in S : TRUE IN BottleneckOf(j) + BottleneckSum(S \ {j})

\* C38: in a runFordFulkerson trace on a graph with positive integer
\* capacities every residual capacity of every snapshot is at least 0, the
\* two residual capacities of a node pair add up to what they added up to in
\* the initial snapshot, every 'Augment path' step has a path of at least
\* one edge whose bottleneck is positive and is moved from each of the
\* path's edges to its reverse, and the reported flow is the sum of the
\* bottlenecks
C38_ResidualsConserved ==
  loc.method = "runFordFulkerson" =>
    /\ \A i \in DOMAIN steps :
         \A u \in NodeIds(graphData) : \A v \in NodeIds(graphData) :
           /\ IsNumber(steps[i].matrix[u][v])
           /\ steps[i].matrix[u][v].n >= 0
           /\ steps[i].matrix[u][v].n + steps[i].matrix[v][u].n
                = steps[1].matrix[u][v].n + steps[1].matrix[v][u].n
    /\ \A j \in StepsTitled("Augment path") :
         /\ Len(steps[j].list) >= 2
         /\ BottleneckOf(j) > 0
         /\ \A k \in 1..(Len(steps[j].list) - 1) :
              LET u == steps[j].list[k]
                  v == steps[j].list[k + 1]
              IN /\ steps[j].matrix[u][v].n = steps[j - 1].matrix[u][v].n - BottleneckOf(j)
                 /\ steps[j].matrix[v][u].n = steps[j - 1].matrix[v][u].n + BottleneckOf(j)
    /\ Returned =>
         LastStep.result = <<BottleneckSum(StepsTitled("Augment path"))>>

(***************************************************************************)
(* C39: auto-play applies every step                                       *)
(***************************************************************************)
\* the indices 0 .. n - 1 in order
IndicesBelow(n) == [i \in 1..n |-> i - 1]

\* C39: when the interval has set the state to 'completed' after Play on an
\* idle player, applyStep has been called for every step of the trace from
\* index 0 to the last, once each and in order, and currentStep is
\* steps.length - 1
C39_AutoPlayAppliesEveryStep ==
  (Playing /\ ~loc.stepMode /\ loc.executionState = "completed") =>
    /\ loc.applied = IndicesBelow(Len(steps))
    /\ loc.currentStep = Len(steps) - 1

(***************************************************************************)
(* C40: the graph shown in step-through mode                               *)
(***************************************************************************)
\* C40: in step-through mode, after Start and any presses of Next,
\* Previous, First and Last, the graph on display is the reset input graph
\* with the steps 0 .. currentStep applied in order
C40_StepThroughShowsPrefix ==
  (Playing /\ loc.stepMode) =>
    loc.displayed = Replayed(resetGraphState(graphData), steps, loc.currentStep + 1)

====
